---- MODULE Spec2Model ----
(***************************************************************************)
(* KeepNotes backend: the note service (server/routes/notes.js,            *)
(* server/models/Note.js) and the account service (server/routes/auth.js,  *)
(* server/routes/users.js) as state machines over the two collections      *)
(* `users` and `notes`.                                                    *)
(*                                                                         *)
(* Strings are sequences of one-character strings, so that trim(),         *)
(* toLowerCase(), parseInt() and string comparison are computed.  A JSON   *)
(* object / query string is a function whose DOMAIN holds the fields that  *)
(* are present; `field \in DOMAIN body` is `body.field !== undefined`.     *)
(***************************************************************************)
EXTENDS Integers, Sequences, FiniteSets, TLC

(***************************************************************************)
(* Bounds of the model.                                                    *)
(***************************************************************************)
MaxNotes == 2      \* note ids ever allocated
MaxTime == 1       \* the clock runs 0..MaxTime
MaxDashNotes == 10 \* notes in a collection drawn for GET /dashboard
DayLength == 2     \* clock units in a day
DashboardLimit == 5

NoteIds == 1..MaxNotes
Times == 0..MaxTime
UserIds == {1, 2}

(***************************************************************************)
(* Strings.                                                                *)
(***************************************************************************)
Code(c) ==
  CASE c = " " -> 32 [] c = "#" -> 35 [] c = "0" -> 48 [] c = "1" -> 49
    [] c = "2" -> 50 [] c = "3" -> 51 [] c = "4" -> 52 [] c = "5" -> 53
    [] c = "6" -> 54 [] c = "7" -> 55 [] c = "8" -> 56 [] c = "9" -> 57
    [] c = "@" -> 64 [] c = "A" -> 65 [] c = "B" -> 66 [] c = "F" -> 70
    [] c = "G" -> 71 [] c = "P" -> 80 [] c = "Q" -> 81
    [] c = "a" -> 97 [] c = "b" -> 98 [] c = "f" -> 102 [] c = "g" -> 103
    [] c = "p" -> 112 [] c = "q" -> 113 [] c = "x" -> 120
    [] OTHER -> 0

Digits == {"0", "1", "2", "3", "4", "5", "6", "7", "8", "9"}
HexChars == Digits \cup {"a", "b", "f", "A", "B", "F"}

RECURSIVE LTrim(_)
LTrim(s) == IF s # <<>> /\ Head(s) = " " THEN LTrim(Tail(s)) ELSE s

RECURSIVE RTrim(_)
RTrim(s) ==
  IF s # <<>> /\ s[Len(s)] = " " THEN RTrim(SubSeq(s, 1, Len(s) - 1)) ELSE s

\* String.prototype.trim
trim(s) == RTrim(LTrim(s))

\* binary string order, as MongoDB sorts strings without a collation
RECURSIVE StrLeq(_, _)
StrLeq(s, t) ==
  IF s = <<>> THEN TRUE
  ELSE IF t = <<>> THEN FALSE
  ELSE IF Code(Head(s)) < Code(Head(t)) THEN TRUE
  ELSE IF Code(Head(s)) > Code(Head(t)) THEN FALSE
  ELSE StrLeq(Tail(s), Tail(t))

\* parseInt of a string of decimal digits
RECURSIVE parseInt(_)
parseInt(s) ==
  IF s = <<>> THEN 0
  ELSE 10 * parseInt(SubSeq(s, 1, Len(s) - 1)) + (Code(s[Len(s)]) - 48)

\* validator isInt({min, max}) on a string of the query
isInt(s, min, max) ==
  /\ s # <<>>
  /\ \A i \in 1..Len(s) : s[i] \in Digits
  /\ parseInt(s) >= min
  /\ parseInt(s) <= max

LowerChar(c) ==
  CASE c = "A" -> "a" [] c = "B" -> "b" [] c = "F" -> "f" [] c = "G" -> "g"
    [] c = "P" -> "p" [] c = "Q" -> "q" [] OTHER -> c

\* String.prototype.toLowerCase
toLowerCase(s) == [i \in 1..Len(s) |-> LowerChar(s[i])]

IsUpper(c) == LowerChar(c) # c
IsLower(c) == Code(c) >= 97
IsDigit(c) == c \in Digits

\* validator isEmail: one @ with a local part and a domain, no blanks
isEmail(s) ==
  /\ Cardinality({i \in 1..Len(s) : s[i] = "@"}) = 1
  /\ s[1] # "@" /\ s[Len(s)] # "@"
  /\ \A i \in 1..Len(s) : s[i] # " "

\* validator normalizeEmail (all_lowercase)
normalizeEmail(s) == toLowerCase(s)

\* validator isInt({min})
isIntMin(s, min) ==
  /\ s # <<>>
  /\ \A i \in 1..Len(s) : s[i] \in Digits
  /\ parseInt(s) >= min

\* validator isBoolean (strict): exactly these four strings
isBoolean(v) == v \in {"true", "false", "1", "0"}

Min(a, b) == IF a < b THEN a ELSE b
Max(a, b) == IF a > b THEN a ELSE b

\* value of an optional field, with the destructuring default
Get(obj, f, default) == IF f \in DOMAIN obj THEN obj[f] ELSE default

\* JavaScript truthiness of an optional string field: present and not ''
Truthy(obj, f) == f \in DOMAIN obj /\ obj[f] # <<>>

(***************************************************************************)
(* State.                                                                  *)
(***************************************************************************)
VARIABLES
  users,     \* collection `users`: user id -> user document
  tokens,    \* user ids for which a session token has been issued
  notes,     \* collection `notes`: note id -> note document
  nextId,    \* number of note ids allocated so far (ids are never reused)
  now,       \* Date.now()
  req,       \* the last request: route, req.user._id, params, query or body
  res,       \* the last response
  pending,   \* requests suspended at an await: request id -> handler frame
  localStorage,  \* the browser's localStorage: key -> stored string
  context,   \* the state of AuthProvider: user, isAuthenticated, isLoading
  call,      \* the last operation of the client, and the last of login and logout
  sent       \* the requests the client sent: their number, the header of the last

vars == <<users, tokens, notes, nextId, now, req, res, pending,
          localStorage, context, call, sent>>

\* the browser, which no handler of the server touches
Browser == <<localStorage, context, call, sent>>

Categories == {"personal", "work", "creative", "study"}
SortKeys == {"createdAt", "updatedAt", "title"}
DefaultColor == <<"#", "f", "f", "f", "f", "f", "f">>

TitleMax == 200
ContentMax == 10000
TagMax == 30
TagsMax == 10
DefaultPage == <<"1">>
DefaultLimit == <<"2", "0">>
LimitMax == 100
FindDefaultLimit == 50

(***************************************************************************)
(* models/Note.js                                                          *)
(***************************************************************************)
\* the weighted text index over title, content and tags: a note matches a
\* search term when the term is its title, its content or one of its tags
TextMatch(doc, term) ==
  \/ doc.title = term
  \/ doc.content = term
  \/ \E i \in 1..Len(doc.tags) : doc.tags[i] = term

\* a MongoDB filter document: equality on every field it holds, $text on text
Matches(doc, query) ==
  \A f \in DOMAIN query :
    IF f = "text" THEN TextMatch(doc, query[f]) ELSE doc[f] = query[f]

\* Model.find / countDocuments: the documents of the collection selected
Find(store, query) == {store[id] : id \in {i \in DOMAIN store : Matches(store[i], query)}}

countDocuments(store, query) == Cardinality(Find(store, query))

\* d1 may precede d2 under .sort({[sortBy]: sortOrder})
Precedes(d1, d2, sortBy, sortOrder) ==
  IF sortBy = "title"
  THEN IF sortOrder = 1 THEN StrLeq(d1.title, d2.title) ELSE StrLeq(d2.title, d1.title)
  ELSE IF sortOrder = 1 THEN d1[sortBy] <= d2[sortBy] ELSE d2[sortBy] <= d1[sortBy]

\* every order .sort() may return: documents with equal keys come in any order
RECURSIVE Sorted(_, _, _)
Sorted(S, sortBy, sortOrder) ==
  IF S = {} THEN {<<>>}
  ELSE UNION {{<<m>> \o rest : rest \in Sorted(S \ {m}, sortBy, sortOrder)} :
                m \in {d \in S : \A e \in S : Precedes(d, e, sortBy, sortOrder)}}

\* .limit(limit).skip(skip): the cursor skips first, then limits
SkipLimit(seq, skip, limit) == SubSeq(seq, skip + 1, Min(Len(seq), skip + limit))

\* the filter without the isArchived default
findUserNotesQueryAll(userId, options) ==
  [userId |-> userId]
    @@ (IF "isArchived" \in DOMAIN options /\ options.isArchived
        THEN [isArchived |-> TRUE] ELSE <<>>)
    @@ (IF "category" \in DOMAIN options THEN [category |-> options.category] ELSE <<>>)
    @@ (IF "isPinned" \in DOMAIN options THEN [isPinned |-> options.isPinned] ELSE <<>>)
    @@ (IF Truthy(options, "search") THEN [text |-> options.search] ELSE <<>>)

\* the filter findUserNotes builds from its options
findUserNotesQuery(userId, options) ==
  [userId |-> userId, isArchived |-> Get(options, "isArchived", FALSE)]
    @@ (IF "category" \in DOMAIN options THEN [category |-> options.category] ELSE <<>>)
    @@ (IF "isPinned" \in DOMAIN options THEN [isPinned |-> options.isPinned] ELSE <<>>)
    @@ (IF Truthy(options, "search") THEN [text |-> options.search] ELSE <<>>)

\* statics.findUserNotes without .sort(): the documents in insertion order
findUserNotesUnsorted(store, userId, options) ==
  {SkipLimit(seq, Get(options, "skip", 0), Get(options, "limit", FindDefaultLimit)) :
     seq \in Sorted(Find(store, findUserNotesQuery(userId, options)), "_id", 1)}

\* statics.findUserNotes: the set of result arrays the query may produce
findUserNotes(store, userId, options) ==
  {SkipLimit(seq, Get(options, "skip", 0), Get(options, "limit", FindDefaultLimit)) :
     seq \in Sorted(Find(store, findUserNotesQuery(userId, options)),
                    Get(options, "sortBy", "updatedAt"),
                    Get(options, "sortOrder", -1))}

\* $group of getUserStats over the matched documents ($sum, $cond, $push)
RECURSIVE Group(_)
Group(S) ==
  IF S = {} THEN [totalNotes |-> 0, pinnedNotes |-> 0, categoryCounts |-> <<>>]
  ELSE LET d == CHOOSE x \in S : TRUE
           g == Group(S \ {d})
       IN [totalNotes |-> g.totalNotes + 1,
           pinnedNotes |-> g.pinnedNotes + (IF d.isPinned = TRUE THEN 1 ELSE 0),
           categoryCounts |-> Append(g.categoryCounts, d.category)]

\* $size of $filter(categoryCounts, $$this = c)
SizeFilter(seq, c) == Len(SelectSeq(seq, LAMBDA x : x = c))

\* the aggregation with $match on the owner alone
getUserStatsArchived(store, userId) ==
  LET matched == Find(store, [userId |-> userId])
      g == Group(matched)
  IN IF matched = {} THEN <<>>
     ELSE <<[totalNotes |-> g.totalNotes,
             pinnedNotes |-> g.pinnedNotes,
             categories |-> [personal |-> SizeFilter(g.categoryCounts, "personal"),
                             work |-> SizeFilter(g.categoryCounts, "work"),
                             creative |-> SizeFilter(g.categoryCounts, "creative"),
                             study |-> SizeFilter(g.categoryCounts, "study")]]>>

\* statics.getUserStats: the array the aggregation pipeline returns; $group
\* emits no document when $match selects none
getUserStats(store, userId) ==
  LET matched == Find(store, [userId |-> userId, isArchived |-> FALSE])
      g == Group(matched)
  IN IF matched = {} THEN <<>>
     ELSE <<[totalNotes |-> g.totalNotes,
             pinnedNotes |-> g.pinnedNotes,
             categories |-> [personal |-> SizeFilter(g.categoryCounts, "personal"),
                             work |-> SizeFilter(g.categoryCounts, "work"),
                             creative |-> SizeFilter(g.categoryCounts, "creative"),
                             study |-> SizeFilter(g.categoryCounts, "study")]]>>

(***************************************************************************)
(* middleware                                                              *)
(***************************************************************************)
\* middleware/auth: the bearer token is a signed token issued for userId and
\* the user document exists
auth(u) == u \in tokens /\ u \in DOMAIN users

\* middleware/validation: the error envelope for failed field validations
ValidationFailed(fields) ==
  [status |-> 400, error |-> "Validation failed", errors |-> fields]

\* the 404 of the routes on /:id; only the verb of the message differs
NotFound(verb) ==
  [status |-> 404, error |-> "Note not found",
   message |->
     CASE verb = "view" ->
            "The requested note does not exist or you do not have permission to view it."
       [] verb = "update" ->
            "The requested note does not exist or you do not have permission to update it."
       [] verb = "delete" ->
            "The requested note does not exist or you do not have permission to delete it."
       [] OTHER ->
            "The requested note does not exist or you do not have permission to modify it."]

(***************************************************************************)
(* routes/notes.js: validation rules                                       *)
(***************************************************************************)
ValidColor(c) ==
  /\ Len(c) \in {4, 7}
  /\ c[1] = "#"
  /\ \A i \in 2..Len(c) : c[i] \in HexChars

TrimTags(tags) == [i \in 1..Len(tags) |-> trim(tags[i])]

\* the sanitizers of the validation chains rewrite req.body in place
SanitizeNoteBody(body) ==
  [f \in DOMAIN body |->
     IF f \in {"title", "content"} THEN trim(body[f])
     ELSE IF f = "tags" THEN TrimTags(body[f])
     ELSE body[f]]

\* the tag checks with the count compared one too high
TagsErrorsOffByOne(body) ==
  (IF "tags" \in DOMAIN body /\ Len(body.tags) > TagsMax + 1 THEN {"tags"} ELSE {})
  \cup (IF "tags" \in DOMAIN body
           /\ \E i \in 1..Len(body.tags) : Len(trim(body.tags[i])) > TagMax
        THEN {"tags.*"} ELSE {})

TagsErrors(body) ==
  (IF "tags" \in DOMAIN body /\ Len(body.tags) > TagsMax THEN {"tags"} ELSE {})
  \cup (IF "tags" \in DOMAIN body
           /\ \E i \in 1..Len(body.tags) : Len(trim(body.tags[i])) > TagMax
        THEN {"tags.*"} ELSE {})

createNoteValidation(body) ==
  (IF Len(trim(Get(body, "title", <<>>))) \in 1..TitleMax THEN {} ELSE {"title"})
  \cup (IF Len(trim(Get(body, "content", <<>>))) \in 1..ContentMax THEN {} ELSE {"content"})
  \cup (IF "category" \in DOMAIN body /\ body.category \in Categories THEN {} ELSE {"category"})
  \cup TagsErrors(body)
  \cup (IF "color" \in DOMAIN body /\ ~ValidColor(body.color) THEN {"color"} ELSE {})

updateNoteValidation(body) ==
  (IF "title" \in DOMAIN body /\ Len(trim(body.title)) \notin 1..TitleMax
   THEN {"title"} ELSE {})
  \cup (IF "content" \in DOMAIN body /\ Len(trim(body.content)) \notin 1..ContentMax
        THEN {"content"} ELSE {})
  \cup (IF "category" \in DOMAIN body /\ body.category \notin Categories
        THEN {"category"} ELSE {})
  \cup TagsErrors(body)
  \cup (IF "isPinned" \in DOMAIN body /\ body.isPinned \notin BOOLEAN
        THEN {"isPinned"} ELSE {})
  \cup (IF "isArchived" \in DOMAIN body /\ body.isArchived \notin BOOLEAN
        THEN {"isArchived"} ELSE {})
  \cup (IF "color" \in DOMAIN body /\ ~ValidColor(body.color) THEN {"color"} ELSE {})

queryValidation(q) ==
  (IF "page" \in DOMAIN q /\ ~isIntMin(q.page, 1) THEN {"page"} ELSE {})
  \cup (IF "limit" \in DOMAIN q /\ ~isInt(q.limit, 1, LimitMax) THEN {"limit"} ELSE {})
  \cup (IF "category" \in DOMAIN q /\ q.category \notin Categories THEN {"category"} ELSE {})
  \cup (IF "isPinned" \in DOMAIN q /\ ~isBoolean(q.isPinned) THEN {"isPinned"} ELSE {})
  \cup (IF "isArchived" \in DOMAIN q /\ ~isBoolean(q.isArchived) THEN {"isArchived"} ELSE {})
  \cup (IF "sortBy" \in DOMAIN q /\ q.sortBy \notin SortKeys THEN {"sortBy"} ELSE {})
  \cup (IF "sortOrder" \in DOMAIN q /\ q.sortOrder \notin {"asc", "desc"}
        THEN {"sortOrder"} ELSE {})

(***************************************************************************)
(* routes/notes.js: handlers.  Each handler is a response (or the set of   *)
(* responses it may give) and the collection it leaves.                    *)
(***************************************************************************)
\* findOne({_id}): the lookup without the owner
findOneAnyOwner(store, id, userId) == IF id \in DOMAIN store THEN <<store[id]>> ELSE <<>>

\* Note.findOne({_id, userId}); <<>> is null
findOne(store, id, userId) ==
  IF id \in DOMAIN store /\ store[id].userId = userId THEN <<store[id]>> ELSE <<>>

\* the options GET / hands to findUserNotes
listOptions(q) ==
  LET page == Get(q, "page", DefaultPage)
      limit == Get(q, "limit", DefaultLimit)
      isArchived == Get(q, "isArchived", "false")
      sortBy == Get(q, "sortBy", "updatedAt")
      sortOrder == Get(q, "sortOrder", "desc")
  IN [isArchived |-> (isArchived = "true"),
      limit |-> parseInt(limit),
      skip |-> (parseInt(page) - 1) * parseInt(limit),
      sortBy |-> sortBy,
      sortOrder |-> (IF sortOrder = "desc" THEN -1 ELSE 1)]
     @@ (IF "category" \in DOMAIN q THEN [category |-> q.category] ELSE <<>>)
     @@ (IF "isPinned" \in DOMAIN q THEN [isPinned |-> (q.isPinned = "true")] ELSE <<>>)
     @@ (IF "search" \in DOMAIN q THEN [search |-> q.search] ELSE <<>>)

\* the count filter reading '1' as true
countQueryLoose(userId, q) ==
  [userId |-> userId, isArchived |-> (Get(q, "isArchived", "false") = "true")]
    @@ (IF "category" \in DOMAIN q THEN [category |-> q.category] ELSE <<>>)
    @@ (IF "isPinned" \in DOMAIN q THEN [isPinned |-> (q.isPinned \in {"true", "1"})] ELSE <<>>)
    @@ (IF Truthy(q, "search") THEN [text |-> q.search] ELSE <<>>)

\* the filter GET / counts with
countQuery(userId, q) ==
  [userId |-> userId, isArchived |-> (Get(q, "isArchived", "false") = "true")]
    @@ (IF "category" \in DOMAIN q THEN [category |-> q.category] ELSE <<>>)
    @@ (IF "isPinned" \in DOMAIN q THEN [isPinned |-> (q.isPinned = "true")] ELSE <<>>)
    @@ (IF Truthy(q, "search") THEN [text |-> q.search] ELSE <<>>)

\* Math.floor(a / b) + 1
FloorPlusOne(a, b) == (a \div b) + 1

\* Math.ceil(a / b), b > 0
Ceil(a, b) == (a + b - 1) \div b

\* GET /
ListRes(store, u, q) ==
  IF queryValidation(q) # {} THEN {ValidationFailed(queryValidation(q))}
  ELSE LET page == parseInt(Get(q, "page", DefaultPage))
           limit == parseInt(Get(q, "limit", DefaultLimit))
           totalNotes == countDocuments(store, countQuery(u, q))
           totalPages == Ceil(totalNotes, limit)
       IN {[status |-> 200,
            message |-> "Notes retrieved successfully",
            notes |-> found,
            pagination |-> [currentPage |-> page,
                            totalPages |-> totalPages,
                            totalNotes |-> totalNotes,
                            hasNextPage |-> (page < totalPages),
                            hasPrevPage |-> (page > 1)]] :
             found \in findUserNotes(store, u, listOptions(q))}

ZeroStats ==
  [totalNotes |-> 0, pinnedNotes |-> 0,
   categories |-> [personal |-> 0, work |-> 0, creative |-> 0, study |-> 0]]

\* GET /stats
StatsRes(store, u) ==
  LET stats == getUserStats(store, u)
  IN [status |-> 200,
      message |-> "Statistics retrieved successfully",
      data |-> IF Len(stats) > 0 THEN stats[1] ELSE ZeroStats]

\* GET /:id
GetByIdRes(store, u, id) ==
  LET note == findOne(store, id, u)
  IN IF note = <<>> THEN NotFound("view")
     ELSE [status |-> 200, message |-> "Note retrieved successfully", data |-> note[1]]

\* tags.map(tag => tag.trim()) without the filter
CleanTagsKeepEmpty(tags) == TrimTags(tags)

\* tags.map(tag => tag.trim()).filter(tag => tag)
CleanTags(tags) == SelectSeq(TrimTags(tags), LAMBDA t : t # <<>>)

\* new Note({...}) of POST /, with the schema defaults, as saved at time t
NewNote(id, u, body, t) ==
  [_id |-> id,
   userId |-> u,
   title |-> trim(body.title),
   content |-> trim(body.content),
   category |-> body.category,
   tags |-> IF "tags" \in DOMAIN body THEN CleanTags(body.tags) ELSE <<>>,
   isPinned |-> FALSE,
   isArchived |-> FALSE,
   color |-> Get(body, "color", DefaultColor),
   createdAt |-> t,
   updatedAt |-> t]

\* POST /
CreateRes(store, u, id, raw, t) ==
  IF createNoteValidation(raw) # {} THEN ValidationFailed(createNoteValidation(raw))
  ELSE [status |-> 201, message |-> "Note created successfully",
        data |-> NewNote(id, u, SanitizeNoteBody(raw), t)]

CreateStore(store, u, id, raw, t) ==
  IF createNoteValidation(raw) # {} THEN store
  ELSE (id :> NewNote(id, u, SanitizeNoteBody(raw), t)) @@ store

\* PUT /:id assigning every field of the body to the document
UpdatedNoteAssignAll(note, body, t) ==
  [f \in DOMAIN note |->
     IF f \in DOMAIN body THEN body[f] ELSE IF f = "updatedAt" THEN t ELSE note[f]]

\* PUT /:id replacing the document: a field the body omits gets its default
UpdatedNoteReplace(note, body, t) ==
  [f \in DOMAIN note |->
     IF f \in {"title", "content"} /\ f \in DOMAIN body THEN trim(body[f])
     ELSE IF f = "tags" THEN (IF f \in DOMAIN body THEN CleanTags(body.tags) ELSE <<>>)
     ELSE IF f \in {"isPinned", "isArchived"} THEN Get(body, f, FALSE)
     ELSE IF f = "color" THEN Get(body, f, DefaultColor)
     ELSE IF f = "category" /\ f \in DOMAIN body THEN body[f]
     ELSE IF f = "updatedAt" THEN t
     ELSE note[f]]

\* the assignments of PUT /:id and the pre-save hook
UpdatedNote(note, body, t) ==
  [f \in DOMAIN note |->
     IF f \in {"title", "content"} /\ f \in DOMAIN body THEN trim(body[f])
     ELSE IF f = "tags" /\ f \in DOMAIN body THEN CleanTags(body.tags)
     ELSE IF f \in {"category", "isPinned", "isArchived", "color"} /\ f \in DOMAIN body
          THEN body[f]
     ELSE IF f = "updatedAt" THEN t
     ELSE note[f]]

\* PUT /:id
UpdateRes(store, u, id, raw, t) ==
  LET note == findOne(store, id, u)
  IN IF updateNoteValidation(raw) # {} THEN ValidationFailed(updateNoteValidation(raw))
     ELSE IF note = <<>> THEN NotFound("update")
     ELSE [status |-> 200, message |-> "Note updated successfully",
           data |-> UpdatedNote(note[1], SanitizeNoteBody(raw), t)]

UpdateStore(store, u, id, raw, t) ==
  LET note == findOne(store, id, u)
  IN IF updateNoteValidation(raw) # {} \/ note = <<>> THEN store
     ELSE [store EXCEPT ![id] = UpdatedNote(note[1], SanitizeNoteBody(raw), t)]

\* Note.findOneAndDelete({_id, userId}): the document removed, <<>> if none
findOneAndDelete(store, id, userId) == findOne(store, id, userId)

\* DELETE /:id looking the id up first and the owner second
DeleteResLeaky(store, u, id) ==
  IF id \in DOMAIN store /\ store[id].userId # u
  THEN [status |-> 403, error |-> "Forbidden", message |-> "You do not own this note."]
  ELSE IF id \notin DOMAIN store THEN NotFound("delete")
  ELSE [status |-> 200, message |-> "Note deleted successfully", data |-> [id |-> id]]

\* DELETE /:id
DeleteRes(store, u, id) ==
  LET note == findOneAndDelete(store, id, u)
  IN IF note = <<>> THEN NotFound("delete")
     ELSE [status |-> 200, message |-> "Note deleted successfully",
           data |-> [id |-> note[1]._id]]

\* DELETE /:id keeping the document as an archived tombstone
DeleteStoreSoft(store, u, id) ==
  IF findOneAndDelete(store, id, u) = <<>> THEN store
  ELSE [store EXCEPT ![id].isArchived = TRUE]

DeleteStore(store, u, id) ==
  IF findOneAndDelete(store, id, u) = <<>> THEN store
  ELSE [i \in DOMAIN store \ {id} |-> store[i]]

\* POST /:id/pin
TogglePinRes(store, u, id) ==
  LET note == findOne(store, id, u)
  IN IF note = <<>> THEN NotFound("modify")
     ELSE [status |-> 200,
           message |-> IF ~note[1].isPinned THEN "Note pinned successfully"
                       ELSE "Note unpinned successfully",
           data |-> [id |-> note[1]._id, isPinned |-> ~note[1].isPinned]]

\* POST /:id/pin setting the flag instead of negating it
TogglePinStoreSet(store, u, id, t) ==
  LET note == findOne(store, id, u)
  IN IF note = <<>> THEN store
     ELSE [store EXCEPT ![id] = [note[1] EXCEPT !.isPinned = TRUE, !.updatedAt = t]]

TogglePinStore(store, u, id, t) ==
  LET note == findOne(store, id, u)
  IN IF note = <<>> THEN store
     ELSE [store EXCEPT ![id] = [note[1] EXCEPT !.isPinned = ~note[1].isPinned,
                                                !.updatedAt = t]]

\* POST /:id/archive
ToggleArchiveRes(store, u, id) ==
  LET note == findOne(store, id, u)
  IN IF note = <<>> THEN NotFound("modify")
     ELSE [status |-> 200,
           message |-> IF ~note[1].isArchived THEN "Note archived successfully"
                       ELSE "Note unarchived successfully",
           data |-> [id |-> note[1]._id, isArchived |-> ~note[1].isArchived]]

ToggleArchiveStore(store, u, id, t) ==
  LET note == findOne(store, id, u)
  IN IF note = <<>> THEN store
     ELSE [store EXCEPT ![id] = [note[1] EXCEPT !.isArchived = ~note[1].isArchived,
                                                !.updatedAt = t]]

(***************************************************************************)
(* models/User.js                                                          *)
(***************************************************************************)
PasswordMin == 8
NameMin == 2
NameMax == 50

\* the salted hash the pre-save hook stores for a plaintext password
Hash(pw) == <<"$2a$", pw>>

\* methods.comparePassword
comparePassword(user, candidate) == user.password = Hash(candidate)

\* statics.findByEmail: the user with the lower-cased email, active or not;
\* <<>> is null
findByEmail(store, email) ==
  LET found == {i \in DOMAIN store : store[i].email = toLowerCase(email)}
  IN IF found = {} THEN <<>> ELSE <<store[CHOOSE i \in found : TRUE]>>

\* a collection without the unique index
NoIndex(store, doc) == FALSE

\* the unique index on email: saving doc would duplicate another document's key
DuplicateKey(store, doc) ==
  \E i \in DOMAIN store : i # doc._id /\ store[i].email = doc.email

\* methods.getFullName
getFullName(user) == <<user.firstName, user.lastName>>

(***************************************************************************)
(* routes/auth.js                                                          *)
(***************************************************************************)
\* jwt.sign({userId}, JWT_SECRET)
generateToken(userId) == [userId |-> userId]

StrongPassword(pw) ==
  /\ Len(pw) >= PasswordMin
  /\ \E i \in 1..Len(pw) : IsLower(pw[i])
  /\ \E i \in 1..Len(pw) : IsUpper(pw[i])
  /\ \E i \in 1..Len(pw) : IsDigit(pw[i])

registerValidation(body) ==
  (IF Len(trim(Get(body, "firstName", <<>>))) \in NameMin..NameMax THEN {} ELSE {"firstName"})
  \cup (IF Len(trim(Get(body, "lastName", <<>>))) \in NameMin..NameMax THEN {} ELSE {"lastName"})
  \cup (IF isEmail(Get(body, "email", <<>>)) THEN {} ELSE {"email"})
  \cup (IF StrongPassword(Get(body, "password", <<>>)) THEN {} ELSE {"password"})

loginValidation(body) ==
  (IF isEmail(Get(body, "email", <<>>)) THEN {} ELSE {"email"})
  \cup (IF Get(body, "password", <<>>) # <<>> THEN {} ELSE {"password"})

\* the sanitizers of the account validation chains
SanitizeAccountBody(body) ==
  [f \in DOMAIN body |->
     IF f \in {"firstName", "lastName"} THEN trim(body[f])
     ELSE IF f = "email" THEN normalizeEmail(body[f])
     ELSE body[f]]

UserExists ==
  [status |-> 400, error |-> "User already exists",
   message |-> "An account with this email address already exists."]

RegistrationFailed ==
  [status |-> 500, error |-> "Registration failed",
   message |-> "Unable to create account. Please try again."]

InvalidCredentials ==
  [status |-> 400, error |-> "Invalid credentials",
   message |-> "Invalid email or password."]

AccountDeactivated ==
  [status |-> 400, error |-> "Account deactivated",
   message |-> "Your account has been deactivated. Please contact support."]

\* new User({...}) of POST /register as it stands after both saves at time t
NewUser(id, body, t) ==
  [_id |-> id,
   firstName |-> trim(body.firstName),
   lastName |-> trim(body.lastName),
   email |-> trim(toLowerCase(body.email)),
   password |-> Hash(body.password),
   isActive |-> TRUE,
   lastLogin |-> t]

\* the id a new user document gets
NewUserId(store) == Cardinality(DOMAIN store) + 1

\* POST /register from user.save() on: the insert, the token, the response
RegisterSaveRes(store, body, t) ==
  LET user == NewUser(NewUserId(store), body, t)
  IN IF DuplicateKey(store, user) THEN RegistrationFailed
     ELSE [status |-> 201, message |-> "User registered successfully",
           token |-> generateToken(user._id),
           user |-> [id |-> user._id, firstName |-> user.firstName,
                     lastName |-> user.lastName, email |-> user.email,
                     fullName |-> getFullName(user)]]

RegisterSaveStore(store, body, t) ==
  LET user == NewUser(NewUserId(store), body, t)
  IN IF DuplicateKey(store, user) THEN store ELSE (user._id :> user) @@ store

\* POST /register without the pre-check
RegisterResNoCheck(store, raw, t) ==
  IF registerValidation(raw) # {} THEN ValidationFailed(registerValidation(raw))
  ELSE RegisterSaveRes(store, SanitizeAccountBody(raw), t)

\* POST /register
RegisterRes(store, raw, t) ==
  LET body == SanitizeAccountBody(raw)
  IN IF registerValidation(raw) # {} THEN ValidationFailed(registerValidation(raw))
     ELSE IF findByEmail(store, body.email) # <<>> THEN UserExists
     ELSE RegisterSaveRes(store, body, t)

RegisterStore(store, raw, t) ==
  LET body == SanitizeAccountBody(raw)
  IN IF registerValidation(raw) # {} \/ findByEmail(store, body.email) # <<>> THEN store
     ELSE RegisterSaveStore(store, body, t)

\* POST /login comparing the password before looking at isActive
LoginResPasswordFirst(store, raw, t) ==
  LET body == SanitizeAccountBody(raw)
      user == findByEmail(store, body.email)
  IN IF loginValidation(raw) # {} THEN ValidationFailed(loginValidation(raw))
     ELSE IF user = <<>> THEN InvalidCredentials
     ELSE IF ~comparePassword(user[1], body.password) THEN InvalidCredentials
     ELSE IF ~user[1].isActive THEN AccountDeactivated
     ELSE [status |-> 200, message |-> "Login successful",
           token |-> generateToken(user[1]._id),
           user |-> [id |-> user[1]._id, firstName |-> user[1].firstName,
                     lastName |-> user[1].lastName, email |-> user[1].email,
                     fullName |-> getFullName(user[1]), lastLogin |-> t]]

\* POST /login telling a missing user from a wrong password
LoginResNoSuchUser(store, raw, t) ==
  LET body == SanitizeAccountBody(raw)
      user == findByEmail(store, body.email)
  IN IF loginValidation(raw) # {} THEN ValidationFailed(loginValidation(raw))
     ELSE IF user = <<>>
     THEN [status |-> 404, error |-> "User not found",
           message |-> "No account with this email address exists."]
     ELSE IF ~user[1].isActive THEN AccountDeactivated
     ELSE IF ~comparePassword(user[1], body.password) THEN InvalidCredentials
     ELSE [status |-> 200, message |-> "Login successful",
           token |-> generateToken(user[1]._id),
           user |-> [id |-> user[1]._id, firstName |-> user[1].firstName,
                     lastName |-> user[1].lastName, email |-> user[1].email,
                     fullName |-> getFullName(user[1]), lastLogin |-> t]]

\* POST /login
LoginRes(store, raw, t) ==
  LET body == SanitizeAccountBody(raw)
      user == findByEmail(store, body.email)
  IN IF loginValidation(raw) # {} THEN ValidationFailed(loginValidation(raw))
     ELSE IF user = <<>> THEN InvalidCredentials
     ELSE IF ~user[1].isActive THEN AccountDeactivated
     ELSE IF ~comparePassword(user[1], body.password) THEN InvalidCredentials
     ELSE [status |-> 200, message |-> "Login successful",
           token |-> generateToken(user[1]._id),
           user |-> [id |-> user[1]._id, firstName |-> user[1].firstName,
                     lastName |-> user[1].lastName, email |-> user[1].email,
                     fullName |-> getFullName(user[1]), lastLogin |-> t]]

LoginStore(store, raw, t) ==
  LET r == LoginRes(store, raw, t)
  IN IF r.status # 200 THEN store
     ELSE [store EXCEPT ![r.user.id].lastLogin = t]

\* POST /forgot-password answering 404 for an email no user has
ForgotPasswordResReveal(store, raw) ==
  IF ~isEmail(Get(raw, "email", <<>>)) THEN ValidationFailed({"email"})
  ELSE IF findByEmail(store, normalizeEmail(raw.email)) = <<>>
  THEN [status |-> 404, error |-> "User not found"]
  ELSE [status |-> 200,
        message |-> "If an account with that email exists, a password reset link has been sent."]

\* POST /forgot-password
ForgotPasswordRes(store, raw) ==
  IF isEmail(Get(raw, "email", <<>>))
  THEN [status |-> 200,
        message |-> "If an account with that email exists, a password reset link has been sent."]
  ELSE ValidationFailed({"email"})

(***************************************************************************)
(* routes/users.js                                                         *)
(***************************************************************************)
updateProfileValidation(body) ==
  (IF "firstName" \in DOMAIN body /\ Len(trim(body.firstName)) \notin NameMin..NameMax
   THEN {"firstName"} ELSE {})
  \cup (IF "lastName" \in DOMAIN body /\ Len(trim(body.lastName)) \notin NameMin..NameMax
        THEN {"lastName"} ELSE {})
  \cup (IF "email" \in DOMAIN body /\ ~isEmail(body.email) THEN {"email"} ELSE {})

changePasswordValidation(body) ==
  (IF Get(body, "currentPassword", <<>>) # <<>> THEN {} ELSE {"currentPassword"})
  \cup (IF StrongPassword(Get(body, "newPassword", <<>>)) THEN {} ELSE {"newPassword"})
  \cup (IF "confirmPassword" \in DOMAIN body /\ "newPassword" \in DOMAIN body
           /\ body.confirmPassword = body.newPassword
        THEN {} ELSE {"confirmPassword"})

EmailExists ==
  [status |-> 400, error |-> "Email already exists",
   message |-> "An account with this email address already exists."]

UpdateProfileFailed ==
  [status |-> 500, error |-> "Failed to update profile",
   message |-> "Unable to update profile. Please try again."]

\* the pre-check of PUT /profile run for an unchanged email as well
ProfileConflictAnyHolder(store, user, body) ==
  /\ Truthy(body, "email")
  /\ findByEmail(store, body.email) # <<>>

\* PUT /profile up to the save: the pre-check of a changed email
ProfileConflict(store, user, body) ==
  /\ Truthy(body, "email")
  /\ body.email # user.email
  /\ findByEmail(store, body.email) # <<>>

\* the assignments of PUT /profile to the document of req.user
ProfileAssigned(user, body) ==
  [f \in DOMAIN user |->
     IF f \in {"firstName", "lastName"} /\ Truthy(body, f) THEN trim(body[f])
     ELSE IF f = "email" /\ Truthy(body, f) THEN trim(toLowerCase(body.email))
     ELSE user[f]]

\* user.save() of PUT /profile: the assigned fields are written to the stored
\* document unless the unique index rejects the email
ProfileSaveStore(store, user, body) ==
  LET doc == ProfileAssigned(user, body)
  IN IF DuplicateKey(store, doc) THEN store
     ELSE [store EXCEPT ![user._id] =
             [f \in DOMAIN @ |->
                IF f \in {"firstName", "lastName", "email"} /\ Truthy(body, f)
                THEN doc[f] ELSE @[f]]]

ProfileSaveRes(store, user, body) ==
  LET doc == ProfileAssigned(user, body)
  IN IF DuplicateKey(store, doc) THEN UpdateProfileFailed
     ELSE [status |-> 200, message |-> "Profile updated successfully",
           data |-> [id |-> doc._id, firstName |-> doc.firstName,
                     lastName |-> doc.lastName, email |-> doc.email,
                     fullName |-> getFullName(doc)]]

\* PUT /profile
UpdateProfileRes(store, u, raw) ==
  LET body == SanitizeAccountBody(raw)
  IN IF updateProfileValidation(raw) # {}
     THEN ValidationFailed(updateProfileValidation(raw))
     ELSE IF ProfileConflict(store, store[u], body) THEN EmailExists
     ELSE ProfileSaveRes(store, store[u], body)

UpdateProfileStore(store, u, raw) ==
  LET body == SanitizeAccountBody(raw)
  IN IF updateProfileValidation(raw) # {} \/ ProfileConflict(store, store[u], body)
     THEN store
     ELSE ProfileSaveStore(store, store[u], body)

\* POST /change-password with the two comparisons in the other order
ChangePasswordResSameFirst(store, u, body) ==
  IF changePasswordValidation(body) # {}
  THEN ValidationFailed(changePasswordValidation(body))
  ELSE IF comparePassword(store[u], body.newPassword)
  THEN [status |-> 400, error |-> "Same password",
        message |-> "New password must be different from your current password."]
  ELSE IF ~comparePassword(store[u], body.currentPassword)
  THEN [status |-> 400, error |-> "Invalid current password",
        message |-> "The current password you entered is incorrect."]
  ELSE [status |-> 200, message |-> "Password changed successfully"]

\* POST /change-password
ChangePasswordRes(store, u, body) ==
  IF changePasswordValidation(body) # {}
  THEN ValidationFailed(changePasswordValidation(body))
  ELSE IF ~comparePassword(store[u], body.currentPassword)
  THEN [status |-> 400, error |-> "Invalid current password",
        message |-> "The current password you entered is incorrect."]
  ELSE IF comparePassword(store[u], body.newPassword)
  THEN [status |-> 400, error |-> "Same password",
        message |-> "New password must be different from your current password."]
  ELSE [status |-> 200, message |-> "Password changed successfully"]

\* PUT /change-password answering without saving the new password
ChangePasswordStoreKeep(store, u, body) == store

ChangePasswordStore(store, u, body) ==
  IF ChangePasswordRes(store, u, body).status # 200 THEN store
  ELSE [store EXCEPT ![u].password = Hash(body.newPassword)]

\* .select('title content category updatedAt'): the fields kept, with _id
select(doc) ==
  [_id |-> doc._id, title |-> doc.title, content |-> doc.content,
   category |-> doc.category, updatedAt |-> doc.updatedAt]

\* Note.find(query).sort({updatedAt: -1}).limit(DashboardLimit).select(...):
\* the arrays the query may return
FindRecent(store, query) ==
  {[i \in 1..Min(Len(seq), DashboardLimit) |-> select(seq[i])] :
     seq \in Sorted(Find(store, query), "updatedAt", -1)}

\* today.setHours(0, 0, 0, 0): the start of the day that holds t
StartOfDay(t) == t - (t % DayLength)

\* countDocuments({userId, updatedAt: {$gte: today, $lt: tomorrow}})
todayActivity(store, userId, t) ==
  Cardinality({id \in DOMAIN store :
                 /\ store[id].userId = userId
                 /\ store[id].updatedAt >= StartOfDay(t)
                 /\ store[id].updatedAt < StartOfDay(t) + DayLength})

\* GET /dashboard counting archived notes and listing them
DashboardResArchived(store, accounts, u, t) ==
  LET stats == getUserStatsArchived(store, u)
      userStats == IF Len(stats) > 0 THEN stats[1] ELSE ZeroStats
  IN {[status |-> 200,
       message |-> "Dashboard data retrieved successfully",
       data |-> [user |-> [id |-> accounts[u]._id,
                           fullName |-> getFullName(accounts[u]),
                           email |-> accounts[u].email,
                           lastLogin |-> accounts[u].lastLogin],
                 statistics |-> userStats @@ [todayActivity |-> todayActivity(store, u, t)],
                 recentNotes |-> recentNotes,
                 pinnedNotes |-> pinnedNotes]] :
        recentNotes \in FindRecent(store, [userId |-> u]),
        pinnedNotes \in FindRecent(store, [userId |-> u, isPinned |-> TRUE])}

\* GET /dashboard: the responses the handler may give
DashboardRes(store, accounts, u, t) ==
  LET stats == getUserStats(store, u)
      userStats == IF Len(stats) > 0 THEN stats[1] ELSE ZeroStats
  IN {[status |-> 200,
       message |-> "Dashboard data retrieved successfully",
       data |-> [user |-> [id |-> accounts[u]._id,
                           fullName |-> getFullName(accounts[u]),
                           email |-> accounts[u].email,
                           lastLogin |-> accounts[u].lastLogin],
                 statistics |-> userStats @@ [todayActivity |-> todayActivity(store, u, t)],
                 recentNotes |-> recentNotes,
                 pinnedNotes |-> pinnedNotes]] :
        recentNotes \in FindRecent(store, [userId |-> u, isArchived |-> FALSE]),
        pinnedNotes \in FindRecent(store, [userId |-> u, isPinned |-> TRUE,
                                           isArchived |-> FALSE])}

\* DELETE /account
DeactivateRes ==
  [status |-> 200, message |-> "Account deactivated successfully",
   data |-> [message |-> "Your account has been deactivated. Contact support to reactivate."]]

\* DELETE /account flipping the flag
DeactivateStoreToggle(store, u) == [store EXCEPT ![u].isActive = ~@]

DeactivateStore(store, u) == [store EXCEPT ![u].isActive = FALSE]

(***************************************************************************)
(* Requests the model issues.                                              *)
(***************************************************************************)
NoteUsers == {1, 2}

\* what each user posts: between them every category, tags to trim and to
\* drop, a color given and defaulted, and a title that is blank
CreateBodies(u) ==
  IF u = 1
  THEN { [title |-> <<" ", "a">>, content |-> <<"x">>, category |-> "personal"],
         [title |-> <<"b">>, content |-> <<"x", " ">>, category |-> "work",
          tags |-> << <<" ">>, <<"a", " ">> >>, color |-> <<"#", "0", "0", "0">>],
         [title |-> <<" ">>, content |-> <<"x">>, category |-> "work"] }
  ELSE { [title |-> <<"a">>, content |-> <<"b">>, category |-> "study",
          tags |-> << <<"b">> >>],
         [title |-> <<"b">>, content |-> <<"a">>, category |-> "creative"] }

UpdateBodies ==
  { [isPinned |-> TRUE],
    [isArchived |-> TRUE, isPinned |-> FALSE, userId |-> 2, createdAt |-> MaxTime],
    [category |-> "none"] }

ListQueries ==
  { <<>>,
    [isArchived |-> "true", sortBy |-> "title", sortOrder |-> "asc"],
    [page |-> <<"2">>, limit |-> <<"1">>, search |-> <<"a">>],
    [limit |-> <<"0">>] }

(***************************************************************************)
(* Note service: one action per route of routes/notes.js.                  *)
(***************************************************************************)
Account == <<users, tokens, pending>>

List(u, q) ==
  /\ auth(u)
  /\ res' \in ListRes(notes, u, q)
  /\ req' = [op |-> "List", user |-> u, query |-> q]
  /\ UNCHANGED <<Browser, Account, notes, nextId, now>>

Statistics(u) ==
  /\ auth(u)
  /\ res' = StatsRes(notes, u)
  /\ req' = [op |-> "Statistics", user |-> u]
  /\ UNCHANGED <<Browser, Account, notes, nextId, now>>

GetById(u, id) ==
  /\ auth(u)
  /\ res' = GetByIdRes(notes, u, id)
  /\ req' = [op |-> "GetById", user |-> u, id |-> id]
  /\ UNCHANGED <<Browser, Account, notes, nextId, now>>

Create(u, body) ==
  /\ auth(u)
  /\ nextId < MaxNotes
  /\ res' = CreateRes(notes, u, nextId + 1, body, now)
  /\ notes' = CreateStore(notes, u, nextId + 1, body, now)
  /\ nextId' = IF createNoteValidation(body) = {} THEN nextId + 1 ELSE nextId
  /\ req' = [op |-> "Create", user |-> u, body |-> body]
  /\ UNCHANGED <<Browser, Account, now>>

Update(u, id, body) ==
  /\ auth(u)
  /\ res' = UpdateRes(notes, u, id, body, now)
  /\ notes' = UpdateStore(notes, u, id, body, now)
  /\ req' = [op |-> "Update", user |-> u, id |-> id, body |-> body]
  /\ UNCHANGED <<Browser, Account, nextId, now>>

Delete(u, id) ==
  /\ auth(u)
  /\ res' = DeleteRes(notes, u, id)
  /\ notes' = DeleteStore(notes, u, id)
  /\ req' = [op |-> "Delete", user |-> u, id |-> id]
  /\ UNCHANGED <<Browser, Account, nextId, now>>

TogglePin(u, id) ==
  /\ auth(u)
  /\ res' = TogglePinRes(notes, u, id)
  /\ notes' = TogglePinStore(notes, u, id, now)
  /\ req' = [op |-> "TogglePin", user |-> u, id |-> id]
  /\ UNCHANGED <<Browser, Account, nextId, now>>

ToggleArchive(u, id) ==
  /\ auth(u)
  /\ res' = ToggleArchiveRes(notes, u, id)
  /\ notes' = ToggleArchiveStore(notes, u, id, now)
  /\ req' = [op |-> "ToggleArchive", user |-> u, id |-> id]
  /\ UNCHANGED <<Browser, Account, nextId, now>>

\* time passes between requests
Tick ==
  /\ now < MaxTime
  /\ now' = now + 1
  /\ UNCHANGED <<Browser, Account, notes, nextId, req, res>>

\* the browser before the page is opened: nothing stored, the initial
\* useState values, nothing sent
InitBrowser ==
  /\ localStorage = <<>>
  /\ context = [user |-> <<>>, isAuthenticated |-> FALSE, isLoading |-> TRUE]
  /\ call = [op |-> "none", session |-> "none"]
  /\ sent = [n |-> 0, authorization |-> <<>>]

NoReq == [op |-> "none", user |-> 0]
NoRes == [status |-> 0]

InitBodies ==
  << [firstName |-> <<"A", "b">>, lastName |-> <<"B", "a">>,
      email |-> <<"a", "@", "x">>,
      password |-> <<"P", "a", "1", "x", "x", "x", "x", "x">>],
     [firstName |-> <<"B", "a">>, lastName |-> <<"A", "b">>,
      email |-> <<"b", "@", "x">>,
      password |-> <<"Q", "b", "2", "x", "x", "x", "x", "x">>] >>

\* the note service with two registered users holding tokens and no note yet
Init ==
  /\ users = [i \in NoteUsers |-> NewUser(i, InitBodies[i], 0)]
  /\ tokens = NoteUsers
  /\ notes = <<>>
  /\ nextId = 0
  /\ now = 0
  /\ req = NoReq
  /\ res = NoRes
  /\ pending = <<>>
  /\ InitBrowser

Next ==
  \/ \E u \in NoteUsers, q \in ListQueries : List(u, q)
  \/ \E u \in NoteUsers : Statistics(u)
  \/ \E u \in NoteUsers, id \in NoteIds : GetById(u, id)
  \/ \E u \in NoteUsers : \E body \in CreateBodies(u) : Create(u, body)
  \/ \E u \in NoteUsers, id \in NoteIds, body \in UpdateBodies : Update(u, id, body)
  \/ \E u \in NoteUsers, id \in NoteIds : Delete(u, id)
  \/ \E u \in NoteUsers, id \in NoteIds : TogglePin(u, id)
  \/ \E u \in NoteUsers, id \in NoteIds : ToggleArchive(u, id)
  \/ Tick

Spec == Init /\ [][Next]_vars

(***************************************************************************)
(* GET / as a function of the collection and the query: a collection the   *)
(* service can hold and a request in flight are drawn, and the handler     *)
(* answers the request.                                                    *)
(***************************************************************************)
MaxListNotes == 2    \* notes in a drawn collection
MaxPagingNotes == 27 \* notes in a collection drawn for paging
MaxPage == 4         \* pages asked for

\* the query strings with any of the given values for field f, or without f
Optional(f, values) == {<<>>} \cup {f :> v : v \in values}

\* a note as Create leaves it at time t, then pinned and archived as told
DrawnNote(id, u, body, t, pinned, archived) ==
  [NewNote(id, u, SanitizeNoteBody(body), t) EXCEPT !.isPinned = pinned,
                                                    !.isArchived = archived]

DrawnNotes(id) ==
  UNION {{DrawnNote(id, u, body, 0, pinned, archived) :
            body \in {b \in CreateBodies(u) : createNoteValidation(b) = {}},
            pinned \in BOOLEAN, archived \in BOOLEAN} : u \in NoteUsers}

DrawnStores ==
  UNION {{store \in [1..n -> UNION {DrawnNotes(i) : i \in 1..n}] :
            \A i \in 1..n : store[i]._id = i} : n \in 0..MaxListNotes}

ListSpecQueries ==
  {c @@ p @@ a @@ s @@ l :
     c \in Optional("category", {"work"}),
     p \in Optional("isPinned", {"true", "false", "1", "0"}),
     a \in Optional("isArchived", {"true", "false", "1", "0"}),
     s \in Optional("search", {<<>>, <<"a">>}),
     l \in Optional("limit", {<<"1">>})}

\* GET / answering the request in flight
ListRespond ==
  /\ req.op = "List" /\ res = NoRes
  /\ auth(req.user)
  /\ res' \in ListRes(notes, req.user, req.query)
  /\ UNCHANGED <<Browser, Account, notes, nextId, now, req>>

InitList ==
  /\ users = [i \in NoteUsers |-> NewUser(i, InitBodies[i], 0)]
  /\ tokens = NoteUsers
  /\ notes \in DrawnStores
  /\ nextId = Len(notes)
  /\ now = 0
  /\ req \in {[op |-> "List", user |-> u, query |-> q] :
                u \in NoteUsers, q \in ListSpecQueries}
  /\ res = NoRes
  /\ pending = <<>>
  /\ InitBrowser

NextList == ListRespond

SpecList == InitList /\ [][NextList]_vars

\* the i-th of n notes of user 1, created at time i; every 13th was archived
\* at time n + i
PagingNote(i, n) ==
  IF i % 13 = 0
  THEN [DrawnNote(i, 1, [title |-> <<"a">>, content |-> <<"x">>, category |-> "work"],
                  i, FALSE, TRUE) EXCEPT !.updatedAt = n + i]
  ELSE DrawnNote(i, 1, [title |-> <<"a">>, content |-> <<"x">>, category |-> "work"],
                 i, FALSE, FALSE)

PagingLimits == {<<"1">>, <<"2">>, <<"3">>, <<"1", "0">>, <<"1", "0", "0">>}

Decimal(n) == CASE n = 1 -> <<"1">> [] n = 2 -> <<"2">> [] n = 3 -> <<"3">>
                [] n = 4 -> <<"4">> [] n = 5 -> <<"5">> [] OTHER -> <<"6">>

InitPaging ==
  /\ users = [i \in NoteUsers |-> NewUser(i, InitBodies[i], 0)]
  /\ tokens = NoteUsers
  /\ \E n \in 0..MaxPagingNotes :
       /\ notes = [i \in 1..n |-> PagingNote(i, n)]
       /\ nextId = n
       /\ now = 2 * n
  /\ req \in {[op |-> "List", user |-> 1, query |-> p @@ l @@ a] :
                p \in Optional("page", {Decimal(k) : k \in 1..MaxPage}),
                l \in Optional("limit", PagingLimits),
                a \in Optional("isArchived", {"true"})}
  /\ res = NoRes
  /\ pending = <<>>
  /\ InitBrowser

SpecPaging == InitPaging /\ [][NextList]_vars

(***************************************************************************)
(* GET / with sortBy and sortOrder, over collections whose notes differ in *)
(* title, createdAt and updatedAt.                                         *)
(***************************************************************************)
MaxSortNotes == 3  \* notes in a collection drawn for sorting

\* a note of user 1 created at c and last saved at m
SortNotes(id) ==
  {[DrawnNote(id, 1, [title |-> title, content |-> <<"x">>, category |-> "work"],
              c, FALSE, FALSE) EXCEPT !.updatedAt = m] :
     title \in {<<"a">>, <<"b">>}, c \in {0, 1}, m \in {1, 2}}

SortStores ==
  UNION {{store \in [1..n -> UNION {SortNotes(i) : i \in 1..n}] :
            \A i \in 1..n : store[i]._id = i} : n \in 0..MaxSortNotes}

SortQueries ==
  {s @@ o : s \in Optional("sortBy", {"createdAt", "updatedAt", "title", "color"}),
            o \in Optional("sortOrder", {"asc", "desc"})}

InitSort ==
  /\ users = [i \in NoteUsers |-> NewUser(i, InitBodies[i], 0)]
  /\ tokens = NoteUsers
  /\ notes \in SortStores
  /\ nextId = Len(notes)
  /\ now = 2
  /\ req \in {[op |-> "List", user |-> 1, query |-> q] : q \in SortQueries}
  /\ res = NoRes
  /\ pending = <<>>
  /\ InitBrowser

SpecSort == InitSort /\ [][NextList]_vars

(***************************************************************************)
(* Account service: one action per route of routes/auth.js and             *)
(* routes/users.js.                                                        *)
(***************************************************************************)
MaxUsers == 3      \* user documents ever inserted
MaxPending == 2    \* requests suspended at an await at one time

P1 == <<"P", "a", "1", "x", "x", "x", "x", "x">>
P2 == <<"Q", "b", "2", "x", "x", "x", "x", "x">>

RegisterBodies ==
  { [firstName |-> <<" ", "A", "b">>, lastName |-> <<"B", "a">>,
     email |-> <<"A", "@", "x">>, password |-> P1],
    [firstName |-> <<"A", "b">>, lastName |-> <<"B", "a">>,
     email |-> <<"a", "@", "x">>, password |-> P2],
    [firstName |-> <<"B", "a">>, lastName |-> <<"A", "b", " ">>,
     email |-> <<"b", "@", "x">>, password |-> P1],
    [firstName |-> <<"A">>, lastName |-> <<"B", "a">>,
     email |-> <<"a", "@", "x">>, password |-> <<"p">>] }

LoginBodies ==
  { [email |-> <<"a", "@", "x">>, password |-> P1],
    [email |-> <<"A", "@", "x">>, password |-> P2],
    [email |-> <<"b", "@", "x">>, password |-> P1],
    [email |-> <<"b", "@", "x">>, password |-> <<"q">>],
    [email |-> <<"g", "@", "x">>, password |-> P1],
    [email |-> <<"a">>, password |-> P1] }

ProfileBodies ==
  { [firstName |-> <<" ", "B", "a", " ">>],
    [email |-> <<"B", "@", "x">>],
    [email |-> <<"a", "@", "x">>, lastName |-> <<"A", "b">>],
    [email |-> <<"a">>] }

PasswordBodies ==
  { [currentPassword |-> P1, newPassword |-> P2, confirmPassword |-> P2],
    [currentPassword |-> P2, newPassword |-> P1, confirmPassword |-> P1],
    [currentPassword |-> P1, newPassword |-> P1, confirmPassword |-> P1],
    [currentPassword |-> P1, newPassword |-> P2, confirmPassword |-> P1] }

ForgotBodies ==
  { [email |-> <<"a", "@", "x">>], [email |-> <<"g", "@", "x">>], [email |-> <<"a">>] }

Notes == <<notes, nextId>>

\* the tokens out once res has been sent
Issued(r) == IF "token" \in DOMAIN r THEN tokens \cup {r.token.userId} ELSE tokens

Register(raw) ==
  /\ RegisterStore(users, raw, now) # users => Cardinality(DOMAIN users) < MaxUsers
  /\ res' = RegisterRes(users, raw, now)
  /\ users' = RegisterStore(users, raw, now)
  /\ tokens' = Issued(res')
  /\ req' = [op |-> "Register", user |-> 0, body |-> raw]
  /\ UNCHANGED <<Browser, Notes, now, pending>>

Login(raw) ==
  /\ res' = LoginRes(users, raw, now)
  /\ users' = LoginStore(users, raw, now)
  /\ tokens' = Issued(res')
  /\ req' = [op |-> "Login", user |-> 0, body |-> raw]
  /\ UNCHANGED <<Browser, Notes, now, pending>>

ForgotPassword(raw) ==
  /\ res' = ForgotPasswordRes(users, raw)
  /\ req' = [op |-> "ForgotPassword", user |-> 0, body |-> raw]
  /\ UNCHANGED <<Browser, Account, Notes, now>>

UpdateProfile(u, raw) ==
  /\ auth(u)
  /\ res' = UpdateProfileRes(users, u, raw)
  /\ users' = UpdateProfileStore(users, u, raw)
  /\ req' = [op |-> "UpdateProfile", user |-> u, body |-> raw]
  /\ UNCHANGED <<Browser, Notes, now, tokens, pending>>

ChangePassword(u, raw) ==
  /\ auth(u)
  /\ res' = ChangePasswordRes(users, u, raw)
  /\ users' = ChangePasswordStore(users, u, raw)
  /\ req' = [op |-> "ChangePassword", user |-> u, body |-> raw]
  /\ UNCHANGED <<Browser, Notes, now, tokens, pending>>

DeactivateAccount(u) ==
  /\ auth(u)
  /\ res' = DeactivateRes
  /\ users' = DeactivateStore(users, u)
  /\ req' = [op |-> "DeactivateAccount", user |-> u, isActive |-> users[u].isActive]
  /\ UNCHANGED <<Browser, Notes, now, tokens, pending>>

\* the service with no account yet
InitAuth ==
  /\ users = <<>>
  /\ tokens = {}
  /\ notes = <<>>
  /\ nextId = 0
  /\ now = 0
  /\ req = NoReq
  /\ res = NoRes
  /\ pending = <<>>
  /\ InitBrowser

NextAuth ==
  \/ \E raw \in RegisterBodies : Register(raw)
  \/ \E raw \in LoginBodies : Login(raw)
  \/ \E raw \in ForgotBodies : ForgotPassword(raw)
  \/ \E u \in 1..MaxUsers, raw \in ProfileBodies : UpdateProfile(u, raw)
  \/ \E u \in 1..MaxUsers, raw \in PasswordBodies : ChangePassword(u, raw)
  \/ \E u \in 1..MaxUsers : DeactivateAccount(u)
  \/ Tick

SpecAuth == InitAuth /\ [][NextAuth]_vars

(***************************************************************************)
(* DELETE /account of users who own notes.                                 *)
(***************************************************************************)
NextClose ==
  \/ \E u \in NoteUsers : \E body \in CreateBodies(u) : Create(u, body)
  \/ \E u \in NoteUsers, id \in NoteIds : ToggleArchive(u, id)
  \/ \E u \in NoteUsers : Statistics(u)
  \/ \E u \in NoteUsers : DeactivateAccount(u)
  \/ \E raw \in ForgotBodies : ForgotPassword(raw)
  \/ Tick

SpecClose == Init /\ [][NextClose]_vars

(***************************************************************************)
(* POST / and PUT /:id with tags arrays around the limits of the           *)
(* validation chains.                                                      *)
(***************************************************************************)
\* a tag of n letters
Tag(n) == [i \in 1..n |-> "a"]

TagLists ==
  { [i \in 1..TagsMax |-> <<"a">>],
    [i \in 1..(TagsMax + 1) |-> <<"a">>],
    [i \in 1..TagsMax |-> IF i % 2 = 0 THEN <<" ">> ELSE <<"b", " ">>],
    << Tag(TagMax + 1) >>,
    << <<" ">> \o Tag(TagMax) \o <<" ">>, <<>> >> }

TagCreateBody(tags) ==
  [title |-> <<"a">>, content |-> <<"x">>, category |-> "work", tags |-> tags]

NextTags ==
  \/ \E u \in NoteUsers, tags \in TagLists : Create(u, TagCreateBody(tags))
  \/ \E u \in NoteUsers, id \in NoteIds, tags \in TagLists :
       Update(u, id, [tags |-> tags])

SpecTags == Init /\ [][NextTags]_vars

(***************************************************************************)
(* GET /dashboard as a function of the collection: a collection the        *)
(* service can hold is drawn and the handler answers the request.          *)
(***************************************************************************)
DashPatterns ==
  [pin : {"none", "all", "some"}, archive : {"none", "some"},
   time : {"rising", "pairs", "falling"}]

\* the i-th of n notes: every 7th is user 2's, the rest user 1's
DashNote(i, n, p) ==
  [DrawnNote(i, IF i % 7 = 0 THEN 2 ELSE 1,
             [title |-> <<"a">>, content |-> <<"x">>,
              category |-> IF i % 2 = 0 THEN "work" ELSE "study"],
             0,
             CASE p.pin = "none" -> FALSE [] p.pin = "all" -> TRUE
               [] OTHER -> (i % 3 # 0),
             IF p.archive = "none" THEN FALSE ELSE (i % 4 = 0))
     EXCEPT !.updatedAt = CASE p.time = "rising" -> i
                            [] p.time = "pairs" -> (i + 1) \div 2
                            [] OTHER -> n + 1 - i]

\* GET /dashboard answering the request in flight
DashboardRespond ==
  /\ req.op = "Dashboard" /\ res = NoRes
  /\ auth(req.user)
  /\ res' \in DashboardRes(notes, users, req.user, now)
  /\ UNCHANGED <<Browser, Account, notes, nextId, now, req>>

InitDashboard ==
  /\ users = [i \in NoteUsers |-> NewUser(i, InitBodies[i], 0)]
  /\ tokens = NoteUsers
  /\ \E n \in 0..MaxDashNotes, p \in DashPatterns :
       /\ notes = [i \in 1..n |-> DashNote(i, n, p)]
       /\ nextId = n
       /\ now \in {n, n + 1}
  /\ req \in {[op |-> "Dashboard", user |-> u] : u \in NoteUsers}
  /\ res = NoRes
  /\ pending = <<>>
  /\ InitBrowser

NextDashboard == DashboardRespond

SpecDashboard == InitDashboard /\ [][NextDashboard]_vars

(***************************************************************************)
(* POST /register and PUT /profile step by step: the handler is suspended  *)
(* at `await user.save()` after its findByEmail pre-check, and other       *)
(* requests run in between.                                                *)
(***************************************************************************)
Slots == 1..MaxPending

Drop(f, k) == [i \in DOMAIN f \ {k} |-> f[i]]

\* POST /register up to the pre-check
RegisterCheck(r, raw) ==
  LET body == SanitizeAccountBody(raw)
      refused == registerValidation(raw) # {} \/ findByEmail(users, body.email) # <<>>
  IN /\ r \notin DOMAIN pending
     /\ req' = [op |-> "Register", user |-> 0, body |-> raw]
     /\ IF refused
        THEN /\ res' = RegisterRes(users, raw, now)
             /\ UNCHANGED pending
        ELSE /\ pending' = (r :> [op |-> "Register", raw |-> raw, body |-> body]) @@ pending
             /\ UNCHANGED res
     /\ UNCHANGED <<Browser, users, tokens, Notes, now>>

\* POST /register from user.save() on
RegisterSave(r) ==
  /\ r \in DOMAIN pending /\ pending[r].op = "Register"
  /\ RegisterSaveStore(users, pending[r].body, now) # users
       => Cardinality(DOMAIN users) < MaxUsers
  /\ res' = RegisterSaveRes(users, pending[r].body, now)
  /\ users' = RegisterSaveStore(users, pending[r].body, now)
  /\ tokens' = Issued(res')
  /\ req' = [op |-> "Register", user |-> 0, body |-> pending[r].raw]
  /\ pending' = Drop(pending, r)
  /\ UNCHANGED <<Browser, Notes, now>>

\* PUT /profile up to the pre-check; req.user is the document auth loaded
ProfileCheck(r, u, raw) ==
  LET body == SanitizeAccountBody(raw)
      refused == updateProfileValidation(raw) # {} \/ ProfileConflict(users, users[u], body)
  IN /\ auth(u)
     /\ r \notin DOMAIN pending
     /\ req' = [op |-> "UpdateProfile", user |-> u, body |-> raw]
     /\ IF refused
        THEN /\ res' = UpdateProfileRes(users, u, raw)
             /\ UNCHANGED pending
        ELSE /\ pending' = (r :> [op |-> "UpdateProfile", raw |-> raw, body |-> body,
                                  user |-> users[u]]) @@ pending
             /\ UNCHANGED res
     /\ UNCHANGED <<Browser, users, tokens, Notes, now>>

\* PUT /profile from the assignments and user.save() on
ProfileSave(r) ==
  /\ r \in DOMAIN pending /\ pending[r].op = "UpdateProfile"
  /\ res' = ProfileSaveRes(users, pending[r].user, pending[r].body)
  /\ users' = ProfileSaveStore(users, pending[r].user, pending[r].body)
  /\ req' = [op |-> "UpdateProfile", user |-> pending[r].user._id, body |-> pending[r].raw]
  /\ pending' = Drop(pending, r)
  /\ UNCHANGED <<Browser, tokens, Notes, now>>

NextRace ==
  \/ \E r \in Slots, raw \in RegisterBodies : RegisterCheck(r, raw)
  \/ \E r \in Slots : RegisterSave(r)
  \/ \E r \in Slots, u \in 1..MaxUsers, raw \in ProfileBodies : ProfileCheck(r, u, raw)
  \/ \E r \in Slots : ProfileSave(r)

SpecRace == InitAuth /\ [][NextRace]_vars

(***************************************************************************)
(* PUT /:id, POST /:id/pin and POST /:id/archive step by step: the handler  *)
(* is suspended at `await Note.findOne(...)` and at `await note.save()`,    *)
(* and other requests run in between.                                      *)
(***************************************************************************)
MaxRaceNotes == 1  \* note ids allocated while requests race

RaceCreateBodies == {[title |-> <<"a">>, content |-> <<"x">>, category |-> "work"]}

RaceUpdateBodies == {[title |-> <<"b">>]}

\* the users whose requests race
RaceUsers == {1}

RaceOps == {"Update", "TogglePin", "ToggleArchive"}

\* the paths the handler's assignments and the pre-save hook marked modified
Modified(read, doc) == {f \in DOMAIN read : read[f] # doc[f]} \cup {"updatedAt"}

\* note.save() inserting the document when none has its _id
saveUpsert(store, read, doc) ==
  IF doc._id \in DOMAIN store
  THEN [store EXCEPT ![doc._id] =
          [f \in DOMAIN @ |-> IF f \in Modified(read, doc) THEN doc[f] ELSE @[f]]]
  ELSE (doc._id :> doc) @@ store

\* note.save() applying the flip of a boolean path to the value stored
saveRelative(store, read, doc) ==
  IF doc._id \in DOMAIN store
  THEN [store EXCEPT ![doc._id] =
          [f \in DOMAIN @ |->
             IF f \in Modified(read, doc)
             THEN (IF f \in {"isPinned", "isArchived"} THEN ~@[f] ELSE doc[f])
             ELSE @[f]]]
  ELSE store

\* note.save() of a document findOne loaded: updateOne({_id}, {$set: the
\* modified paths}); nothing is written when no document has the _id
save(store, read, doc) ==
  IF doc._id \in DOMAIN store
  THEN [store EXCEPT ![doc._id] =
          [f \in DOMAIN @ |-> IF f \in Modified(read, doc) THEN doc[f] ELSE @[f]]]
  ELSE store

\* the catch block of each handler
SaveFailed(op) ==
  CASE op = "Update" ->
         [status |-> 500, error |-> "Failed to update note",
          message |-> "Unable to update note. Please try again."]
    [] op = "TogglePin" ->
         [status |-> 500, error |-> "Failed to pin/unpin note",
          message |-> "Unable to modify note. Please try again."]
    [] OTHER ->
         [status |-> 500, error |-> "Failed to archive/unarchive note",
          message |-> "Unable to modify note. Please try again."]

\* the response of the handler run on the collection it read
HandlerRes(op, store, u, id, raw, t) ==
  CASE op = "Update" -> UpdateRes(store, u, id, raw, t)
    [] op = "TogglePin" -> TogglePinRes(store, u, id)
    [] OTHER -> ToggleArchiveRes(store, u, id)

\* the collection the handler run alone would leave
HandlerStore(op, store, u, id, raw, t) ==
  CASE op = "Update" -> UpdateStore(store, u, id, raw, t)
    [] op = "TogglePin" -> TogglePinStore(store, u, id, t)
    [] OTHER -> ToggleArchiveStore(store, u, id, t)

\* the outcomes of await note.save(): it resolves when a document was
\* matched; when none was, it resolves or rejects with DocumentNotFoundError
\* depending on the Mongoose release, and the catch block answers
SaveAnswers(store, frame) ==
  IF frame.doc._id \in DOMAIN store THEN {frame.answer}
  ELSE {frame.answer, SaveFailed(frame.op)}

\* the handler up to await note.save(): findOne, the 404, the assignments and
\* the pre-save hook
NoteFind(r, op, u, id, raw) ==
  LET answer == HandlerRes(op, notes, u, id, raw, now)
  IN /\ auth(u)
     /\ r \notin DOMAIN pending
     /\ \A k \in 1..(r - 1) : k \in DOMAIN pending
     /\ req' = [op |-> op, user |-> u, id |-> id]
     /\ IF answer.status # 200
        THEN /\ res' = answer
             /\ UNCHANGED pending
        ELSE /\ pending' = (r :> [op |-> op, user |-> u, id |-> id, phase |-> "save",
                                  read |-> notes[id],
                                  doc |-> HandlerStore(op, notes, u, id, raw, now)[id],
                                  answer |-> answer]) @@ pending
             /\ UNCHANGED res
     /\ UNCHANGED <<Browser, users, tokens, notes, nextId, now>>

\* the store applies the update of note.save()
NoteSave(r) ==
  /\ r \in DOMAIN pending /\ pending[r].op \in RaceOps /\ pending[r].phase = "save"
  /\ notes' = save(notes, pending[r].read, pending[r].doc)
  /\ \E answer \in SaveAnswers(notes, pending[r]) :
       pending' = [pending EXCEPT ![r].phase = "respond", ![r].answer = answer]
  /\ UNCHANGED <<Browser, users, tokens, nextId, now, req, res>>

\* the handler from await note.save() on: res.json or the catch block
NoteRespond(r) ==
  /\ r \in DOMAIN pending /\ pending[r].op \in RaceOps /\ pending[r].phase = "respond"
  /\ res' = pending[r].answer
  /\ req' = [op |-> pending[r].op, user |-> pending[r].user, id |-> pending[r].id]
  /\ pending' = Drop(pending, r)
  /\ UNCHANGED <<Browser, users, tokens, notes, nextId, now>>

\* POST / while fewer than MaxRaceNotes ids are allocated
RaceCreate(u, body) == nextId < MaxRaceNotes /\ Create(u, body)

NextNotesRace ==
  \/ \E u \in RaceUsers, body \in RaceCreateBodies : RaceCreate(u, body)
  \/ \E u \in RaceUsers, id \in 1..MaxRaceNotes : Delete(u, id)
  \/ \E u \in RaceUsers, id \in 1..MaxRaceNotes : GetById(u, id)
  \/ \E r \in Slots, op \in RaceOps, u \in RaceUsers, id \in 1..MaxRaceNotes,
        raw \in RaceUpdateBodies :
       NoteFind(r, op, u, id, raw)
  \/ \E r \in Slots : NoteSave(r)
  \/ \E r \in Slots : NoteRespond(r)

SpecNotesRace == Init /\ [][NextNotesRace]_vars

(***************************************************************************)
(* The client: services/api.js and context/AuthContext.jsx.  JavaScript    *)
(* null is <<>>; a user object is <<u>> in the React state.                *)
(***************************************************************************)
MaxSent == 2       \* requests counted in sent.n

ClientTokens == {"t1", "t2"}

ClientUsers == { [id |-> 1, firstName |-> "A"], [id |-> 2, firstName |-> "B"] }

UserUpdates == { [firstName |-> "X"] }

\* JSON.stringify and JSON.parse of a plain object
stringify(o) == <<"json", o>>
parse(str) == str[2]

setItem(store, key, value) == (key :> value) @@ store
removeItem(store, key) == [k \in DOMAIN store \ {key} |-> store[k]]
\* localStorage.getItem: <<>> is null
getItem(store, key) == IF key \in DOMAIN store THEN <<store[key]>> ELSE <<>>

\* tokenManager
setToken(store, token) == setItem(store, "keepnotes_token", token)
getToken(store) == getItem(store, "keepnotes_token")
removeToken(store) == removeItem(removeItem(store, "keepnotes_token"), "keepnotes_user")
setUser(store, user) == setItem(store, "keepnotes_user", stringify(user))
getUser(store) ==
  LET user == getItem(store, "keepnotes_user")
  IN IF user # <<>> THEN <<parse(user[1])>> ELSE <<>>

\* { ...user, ...updatedUserData }; spreading null adds nothing
Spread(user, updatedUserData) ==
  IF user = <<>> THEN updatedUserData ELSE updatedUserData @@ user[1]

\* the request interceptor: the headers of an outgoing request
RequestHeaders(store) ==
  IF getToken(store) # <<>> THEN <<"Bearer", getToken(store)[1]>> ELSE <<>>

Server == <<users, tokens, notes, nextId, now, req, res, pending>>

\* the page has been loaded: AuthProvider and the API module exist
Loaded == call.op # "none"

\* the page is loaded: AuthProvider renders with its initial state
Load ==
  /\ context' = [user |-> <<>>, isAuthenticated |-> FALSE, isLoading |-> TRUE]
  /\ call' = [call EXCEPT !.op = "load"]
  /\ UNCHANGED <<Server, localStorage, sent>>

\* the effect of AuthProvider after the first render
Mount ==
  /\ Loaded
  /\ context.isLoading
  /\ context' = IF getToken(localStorage) # <<>> /\ getUser(localStorage) # <<>>
                THEN [user |-> getUser(localStorage), isAuthenticated |-> TRUE,
                      isLoading |-> FALSE]
                ELSE [context EXCEPT !.isLoading = FALSE]
  /\ call' = [call EXCEPT !.op = "mount"]
  /\ UNCHANGED <<Server, localStorage, sent>>

login(token, userData) ==
  /\ Loaded
  /\ localStorage' = setUser(setToken(localStorage, token), userData)
  /\ context' = [context EXCEPT !.user = <<userData>>, !.isAuthenticated = TRUE]
  /\ call' = [op |-> "login", session |-> "login"]
  /\ UNCHANGED <<Server, sent>>

logout ==
  /\ Loaded
  /\ localStorage' = removeToken(localStorage)
  /\ context' = [context EXCEPT !.user = <<>>, !.isAuthenticated = FALSE]
  /\ call' = [op |-> "logout", session |-> "logout"]
  /\ UNCHANGED <<Server, sent>>

updateUser(updatedUserData) ==
  LET newUserData == Spread(context.user, updatedUserData)
  IN /\ Loaded
     /\ localStorage' = setUser(localStorage, newUserData)
     /\ context' = [context EXCEPT !.user = <<newUserData>>]
     /\ call' = [call EXCEPT !.op = "updateUser"]
     /\ UNCHANGED <<Server, sent>>

\* a call of authAPI, notesAPI or userAPI leaves through the request interceptor
Request ==
  /\ Loaded
  /\ sent.n < MaxSent
  /\ sent' = [n |-> sent.n + 1, authorization |-> RequestHeaders(localStorage)]
  /\ call' = [call EXCEPT !.op = "request"]
  /\ UNCHANGED <<Server, localStorage, context>>

\* the response interceptor on a 401: the items are removed and the page is
\* sent to /login, which loads it anew (Load) once the browser gets to it
Response401 ==
  /\ sent.n > 0
  /\ localStorage' = removeToken(localStorage)
  /\ call' = [call EXCEPT !.op = "401"]
  /\ UNCHANGED <<Server, context, sent>>

InitClient ==
  /\ users = <<>> /\ tokens = {} /\ notes = <<>> /\ nextId = 0 /\ now = 0
  /\ req = NoReq /\ res = NoRes /\ pending = <<>>
  /\ InitBrowser

NextClient ==
  \/ Load
  \/ Mount
  \/ \E token \in ClientTokens, userData \in ClientUsers : login(token, userData)
  \/ logout
  \/ \E updatedUserData \in UserUpdates : updateUser(updatedUserData)
  \/ Request
  \/ Response401

SpecClient == InitClient /\ [][NextClient]_vars

(***************************************************************************)
(* Properties.                                                             *)
(***************************************************************************)
NotesOf(u) == {id \in DOMAIN notes : notes[id].userId = u}

\* ids a client may name: allocated or not
AnyIds == 0..(MaxNotes + 1)

C1Queries ==
  { <<>>,
    [isArchived |-> "true"],
    [search |-> <<"a">>, isPinned |-> "false"],
    [category |-> "work", sortBy |-> "title"] }

C1Visible ==
  \A u \in NoteUsers :
    /\ \A q \in C1Queries : \A r \in ListRes(notes, u, q) :
         /\ \A i \in 1..Len(r.notes) : r.notes[i].userId = u
         /\ r.pagination.totalNotes <= Cardinality(NotesOf(u))
    /\ \A id \in AnyIds :
         GetByIdRes(notes, u, id).status = 200 => GetByIdRes(notes, u, id).data.userId = u
    /\ StatsRes(notes, u).data.totalNotes <= Cardinality(NotesOf(u))

C1OwnerOnly ==
  \A id \in DOMAIN notes :
    (id \notin DOMAIN notes' \/ notes'[id] # notes[id]) => req'.user = notes[id].userId

\* C1: owner isolation.  In every state every note that List, GetById or
\* Statistics returns or counts for user u is owned by u, and in every step a
\* note changes or disappears only when the request was issued by its owner.
OwnerIsolation == []C1Visible /\ [][C1OwnerOnly]_vars

\* both users own a note and a request of one for the other's note was refused
C1Witness ==
  /\ NotesOf(1) # {} /\ NotesOf(2) # {}
  /\ req.op \in {"Update", "Delete", "TogglePin", "ToggleArchive"}
  /\ req.id \in DOMAIN notes /\ notes[req.id].userId # req.user
  /\ res.status = 404

\* C2: for GetById, Update, Delete, TogglePin and ToggleArchive a request of
\* user u for a note of another user gets the very response of the same
\* request for an id no note has, and leaves the collection as it is.
NonOwnerAsMissing ==
  \A u \in NoteUsers : \A id \in DOMAIN notes : \A missing \in AnyIds \ DOMAIN notes :
    notes[id].userId # u =>
      /\ GetByIdRes(notes, u, id) = GetByIdRes(notes, u, missing)
      /\ \A body \in UpdateBodies :
           /\ UpdateRes(notes, u, id, body, now) = UpdateRes(notes, u, missing, body, now)
           /\ UpdateStore(notes, u, id, body, now) = notes
      /\ DeleteRes(notes, u, id) = DeleteRes(notes, u, missing)
      /\ DeleteStore(notes, u, id) = notes
      /\ TogglePinRes(notes, u, id) = TogglePinRes(notes, u, missing)
      /\ TogglePinStore(notes, u, id, now) = notes
      /\ ToggleArchiveRes(notes, u, id) = ToggleArchiveRes(notes, u, missing)
      /\ ToggleArchiveStore(notes, u, id, now) = notes

\* a GetById for another user's note was answered as for a missing one
C2Witness ==
  /\ req.op = "GetById"
  /\ req.id \in DOMAIN notes /\ notes[req.id].userId # req.user
  /\ res = GetByIdRes(notes, req.user, 0)
  /\ res.status = 404

LiveNotesOf(u) == {id \in NotesOf(u) : ~notes[id].isArchived}

\* C4: Statistics(u) counts u's non-archived notes, the pinned ones among
\* them and those of each of the four categories, and is the all-zero record
\* when u has no non-archived note.
StatsExact ==
  \A u \in NoteUsers :
    LET r == StatsRes(notes, u)
    IN /\ r.status = 200
       /\ r.data.totalNotes = Cardinality(LiveNotesOf(u))
       /\ r.data.pinnedNotes = Cardinality({id \in LiveNotesOf(u) : notes[id].isPinned})
       /\ DOMAIN r.data.categories = {"personal", "work", "creative", "study"}
       /\ \A c \in DOMAIN r.data.categories :
            r.data.categories[c] =
              Cardinality({id \in LiveNotesOf(u) : notes[id].category = c})
       /\ LiveNotesOf(u) = {} =>
            r.data = [totalNotes |-> 0, pinnedNotes |-> 0,
                      categories |-> [personal |-> 0, work |-> 0,
                                      creative |-> 0, study |-> 0]]

\* the statistics of a user all of whose notes are archived were all zero
C4Witness ==
  /\ req.op = "Statistics" /\ res.status = 200
  /\ NotesOf(req.user) # {} /\ LiveNotesOf(req.user) = {}
  /\ res.data.totalNotes = 0 /\ res.data.categories.work = 0

\* C3: List without isArchived returns no archived note, and List with
\* isArchived=true returns only archived notes of the requesting user,
\* whatever the category, isPinned and search filters are.
ArchiveFilter ==
  (req.op = "List" /\ res # NoRes) =>
     /\ res.status = 200
     /\ "isArchived" \notin DOMAIN req.query =>
          \A i \in 1..Len(res.notes) : ~res.notes[i].isArchived
     /\ ("isArchived" \in DOMAIN req.query /\ req.query.isArchived = "true") =>
          \A i \in 1..Len(res.notes) :
            res.notes[i].isArchived /\ res.notes[i].userId = req.user

\* a listing of the archive, filtered by category and isPinned as well,
\* returned a note while the user also has a live one
C3Witness ==
  /\ req.op = "List" /\ res # NoRes /\ res.status = 200
  /\ {"isArchived", "category", "isPinned"} \subseteq DOMAIN req.query
  /\ req.query.isArchived = "true"
  /\ Len(res.notes) > 0 /\ res.notes[1].isArchived
  /\ \E id \in NotesOf(req.user) : ~notes[id].isArchived

\* C5: for page >= 1, limit in 1..100 and N notes matching the filter, List
\* returns min(limit, max(0, N - (page-1)*limit)) notes and the pagination
\* record currentPage = page, totalNotes = N, totalPages = ceiling(N/limit),
\* hasNextPage = (page < totalPages), hasPrevPage = (page > 1).
PaginationExact ==
  (req.op = "List" /\ res # NoRes) =>
     LET page == parseInt(Get(req.query, "page", <<"1">>))
         limit == parseInt(Get(req.query, "limit", <<"2", "0">>))
         archived == (Get(req.query, "isArchived", "false") = "true")
         N == Cardinality({id \in NotesOf(req.user) : notes[id].isArchived = archived})
         pages == CHOOSE k \in 0..N : k * limit >= N /\ (k = 0 \/ (k - 1) * limit < N)
     IN /\ res.status = 200
        /\ page >= 1 /\ limit \in 1..100
        /\ Len(res.notes) = Min(limit, Max(0, N - (page - 1) * limit))
        /\ res.pagination = [currentPage |-> page, totalPages |-> pages,
                             totalNotes |-> N, hasNextPage |-> (page < pages),
                             hasPrevPage |-> (page > 1)]

\* 25 notes, limit 10, page 3: 5 notes, 3 pages, no next page, a previous one
C5Witness ==
  /\ req.op = "List" /\ res # NoRes
  /\ {"page", "limit"} \subseteq DOMAIN req.query
  /\ req.query.page = <<"3">> /\ req.query.limit = <<"1", "0">>
  /\ res.pagination.totalNotes = 25
  /\ Len(res.notes) = 5
  /\ res.pagination.totalPages = 3
  /\ ~res.pagination.hasNextPage /\ res.pagination.hasPrevPage

\* C6: for every accepted combination of category, isPinned, isArchived and
\* search, the filter of the pagination count selects the notes the listing
\* selects before skip and limit, so totalNotes is the size of that result.
SameFilter ==
  (req.op = "List" /\ res # NoRes) =>
     LET listed == Find(notes, findUserNotesQuery(req.user, listOptions(req.query)))
     IN /\ res.status = 200
        /\ Find(notes, countQuery(req.user, req.query)) = listed
        /\ res.pagination.totalNotes = Cardinality(listed)

\* a page held fewer notes than the count of the filter it was cut from
C6Witness ==
  /\ req.op = "List" /\ res # NoRes /\ res.status = 200
  /\ {"isPinned", "search", "limit"} \subseteq DOMAIN req.query
  /\ Len(res.notes) = 1
  /\ res.pagination.totalNotes = 2

\* the letters of an email folded to lower case
Folded(e) ==
  [i \in 1..Len(e) |->
     CASE e[i] = "A" -> "a" [] e[i] = "B" -> "b" [] e[i] = "G" -> "g" [] OTHER -> e[i]]

AnyCaseEmails ==
  { <<"a", "@", "x">>, <<"A", "@", "x">>, <<"b", "@", "x">>, <<"B", "@", "x">>,
    <<"g", "@", "x">>, <<"G", "@", "x">> }

C7Bodies ==
  {[firstName |-> <<"A", "b">>, lastName |-> <<"B", "a">>, email |-> e, password |-> pw] :
     e \in AnyCaseEmails, pw \in {P1, P2}}

\* C7: a Register whose lower-cased email is the email of an existing user,
\* active or not, is refused with the 400 "User already exists", inserts no
\* user and issues no token.
RegisterConflict ==
  \A raw \in C7Bodies :
    (\E i \in DOMAIN users : Folded(users[i].email) = Folded(raw.email)) =>
       /\ RegisterRes(users, raw, now) =
            [status |-> 400, error |-> "User already exists",
             message |-> "An account with this email address already exists."]
       /\ RegisterStore(users, raw, now) = users
       /\ Issued(RegisterRes(users, raw, now)) = tokens

\* a registration in capital letters was refused for a deactivated account
C7Witness ==
  /\ req.op = "Register" /\ res.status = 400 /\ res.error = "User already exists"
  /\ \E i \in DOMAIN users :
       /\ ~users[i].isActive
       /\ users[i].email # req.body.email
       /\ users[i].email = Folded(req.body.email)

\* C8: no two user documents hold the same lower-cased email, also when
\* Register and UpdateProfile requests for one email run between each
\* other's pre-check and save.
UniqueEmails ==
  \A i \in DOMAIN users : \A j \in DOMAIN users :
    i # j => Folded(users[i].email) # Folded(users[j].email)

\* a save was rejected by the index: its request had passed the pre-check
C8Witness ==
  /\ res.status = 500
  /\ req.op \in {"Register", "UpdateProfile"}
  /\ \E i \in DOMAIN users : users[i].email = Folded(req.body.email)

Passwords == {P1, P2, <<"q">>}

C9Deactivated ==
  \A i \in DOMAIN users :
    ~users[i].isActive =>
      \A e \in AnyCaseEmails : \A pw \in Passwords :
        Folded(e) = users[i].email =>
          /\ LoginRes(users, [email |-> e, password |-> pw], now) =
               [status |-> 400, error |-> "Account deactivated",
                message |-> "Your account has been deactivated. Please contact support."]
          /\ LoginStore(users, [email |-> e, password |-> pw], now) = users

C9Forever ==
  \A i \in DOMAIN users :
    /\ i \in DOMAIN users'
    /\ ~users[i].isActive => ~users'[i].isActive

\* C9: a Login with the email of a deactivated account returns "Account
\* deactivated" whether the password is right or wrong, and no step makes an
\* account active again or removes a user document.
DeactivatedStays == []C9Deactivated /\ [][C9Forever]_vars

\* a Login with the right password was refused for a deactivated account
\* whose email and password had changed since it registered
C9Witness ==
  /\ req.op = "Login" /\ res.status = 400 /\ res.error = "Account deactivated"
  /\ \E i \in DOMAIN users :
       /\ users[i].email = Folded(req.body.email)
       /\ users[i].password = Hash(req.body.password)
       /\ ~users[i].isActive

\* C10: Login for an email no user has and Login for an active user with a
\* wrong password get the same response, and neither changes a user.
LoginIndistinguishable ==
  \A unknown \in AnyCaseEmails : \A i \in DOMAIN users : \A pw \in Passwords :
    ( /\ \A j \in DOMAIN users : users[j].email # Folded(unknown)
      /\ users[i].isActive
      /\ users[i].password # Hash(pw) ) =>
       /\ LoginRes(users, [email |-> unknown, password |-> pw], now) =
            LoginRes(users, [email |-> users[i].email, password |-> pw], now)
       /\ LoginStore(users, [email |-> unknown, password |-> pw], now) = users
       /\ LoginStore(users, [email |-> users[i].email, password |-> pw], now) = users

\* a Login of an active user with a wrong password was refused
C10Witness ==
  /\ req.op = "Login" /\ res.status = 400 /\ res.error = "Invalid credentials"
  /\ \E i \in DOMAIN users :
       /\ users[i].email = Folded(req.body.email)
       /\ users[i].isActive
       /\ users[i].password # Hash(req.body.password)

C11Bodies == {b \in PasswordBodies : changePasswordValidation(b) = {}}

C11Checks ==
  \A u \in DOMAIN users : \A b \in C11Bodies :
    LET r == ChangePasswordRes(users, u, b)
        after == ChangePasswordStore(users, u, b)
    IN /\ users[u].password # Hash(b.currentPassword) =>
            /\ r.status = 400 /\ r.error = "Invalid current password"
            /\ after = users
       /\ (users[u].password = Hash(b.currentPassword)
             /\ users[u].password = Hash(b.newPassword)) =>
            /\ r.status = 400 /\ r.error = "Same password"
            /\ after = users
       /\ (users[u].password = Hash(b.currentPassword)
             /\ users[u].password # Hash(b.newPassword)) =>
            /\ r.status = 200
            /\ after = [users EXCEPT ![u].password = Hash(b.newPassword)]
            /\ after # users

C11OnlyThen ==
  \A i \in DOMAIN users :
    (i \in DOMAIN users' /\ users'[i].password # users[i].password) =>
       /\ req'.op = "ChangePassword" /\ req'.user = i /\ res'.status = 200
       /\ users[i].password = Hash(req'.body.currentPassword)
       /\ users[i].password # Hash(req'.body.newPassword)
       /\ users'[i].password = Hash(req'.body.newPassword)

\* C11: ChangePassword with a current password that is not the stored one
\* answers "Invalid current password", also when the new password is the
\* stored one; with the right current password and a new password equal to
\* the stored one it answers "Same password"; neither writes, and a stored
\* password changes only in a ChangePassword that passes both comparisons.
PasswordChangeChecked == []C11Checks /\ [][C11OnlyThen]_vars

\* a request whose current password was wrong and whose new password was the
\* stored one was refused for the current password
C11Witness ==
  /\ req.op = "ChangePassword" /\ res.status = 400
  /\ res.error = "Invalid current password"
  /\ users[req.user].password = Hash(req.body.newPassword)
  /\ users[req.user].password # Hash(req.body.currentPassword)

C12Effect ==
  \A u \in DOMAIN users :
    LET once == DeactivateStore(users, u)
    IN /\ DOMAIN once = DOMAIN users
       /\ ~once[u].isActive
       /\ \A i \in DOMAIN users \ {u} : once[i] = users[i]
       /\ \A f \in DOMAIN users[u] \ {"isActive"} : once[u][f] = users[u][f]
       /\ DeactivateStore(once, u) = once
       /\ DeactivateRes.status = 200

C12Step ==
  (req'.op = "DeactivateAccount" /\ now' = now) =>
     /\ notes' = notes /\ nextId' = nextId
     /\ res' = DeactivateRes
     /\ DOMAIN users' = DOMAIN users
     /\ ~users'[req'.user].isActive
     /\ ~req'.isActive => users' = users

\* C12: DeactivateAccount sets isActive of the user to false, keeps the user
\* document and every note, and a second DeactivateAccount of the same user
\* succeeds and leaves the state the first one left.
DeactivateIdempotent == []C12Effect /\ [][C12Step]_vars

\* an already inactive user who owns a note deactivated the account again
C12Witness ==
  /\ req.op = "DeactivateAccount" /\ ~req.isActive
  /\ res = DeactivateRes
  /\ ~users[req.user].isActive
  /\ NotesOf(req.user) # {}

C13Bodies ==
  {b \in ProfileBodies : updateProfileValidation(b) = {}}
  \cup { [email |-> <<"A", "@", "x">>],
         [firstName |-> <<"B", "b">>, lastName |-> <<"A", "a", " ">>,
          email |-> <<"b", "@", "x">>] }

\* C13: UpdateProfile writes the trimmed firstName and lastName and the
\* lower-cased email that the request supplies and nothing else; when the
\* supplied email is not the user's own and another user holds it the answer
\* is "Email already exists" and no field of any user changes, a supplied
\* firstName or lastName included; the user's own email is accepted.
ProfileFrame ==
  \A u \in DOMAIN users : \A b \in C13Bodies :
    LET r == UpdateProfileRes(users, u, b)
        after == UpdateProfileStore(users, u, b)
        taken == /\ "email" \in DOMAIN b
                 /\ Folded(b.email) # users[u].email
                 /\ \E i \in DOMAIN users \ {u} : users[i].email = Folded(b.email)
    IN IF taken
       THEN r = EmailExists /\ after = users
       ELSE /\ r.status = 200
            /\ DOMAIN after = DOMAIN users
            /\ \A i \in DOMAIN users \ {u} : after[i] = users[i]
            /\ \A f \in DOMAIN users[u] :
                 after[u][f] =
                   IF f \in DOMAIN b /\ f \in {"firstName", "lastName"} THEN trim(b[f])
                   ELSE IF f \in DOMAIN b /\ f = "email" THEN Folded(b.email)
                   ELSE users[u][f]

\* a request with another user's email and a new lastName was refused and
\* the lastName is not stored
C13Witness ==
  /\ req.op = "UpdateProfile" /\ res = EmailExists
  /\ "lastName" \in DOMAIN req.body
  /\ users[req.user].lastName # trim(req.body.lastName)
  /\ \E i \in DOMAIN users \ {req.user} : users[i].email = Folded(req.body.email)

C14Bodies ==
  { [isPinned |-> TRUE],
    [isArchived |-> TRUE, isPinned |-> FALSE],
    [title |-> <<" ", "b", "a">>],
    [content |-> <<"a", " ">>, category |-> "study"],
    [tags |-> << <<"b", " ">>, <<" ">> >>],
    [color |-> <<"#", "f", "f", "f">>, isArchived |-> FALSE],
    [title |-> <<"a">>, content |-> <<"b">>, category |-> "creative", tags |-> <<>>,
     isPinned |-> TRUE, isArchived |-> TRUE, color |-> <<"#", "0", "0", "0">>] }

C14Frame ==
  \A u \in NoteUsers : \A id \in DOMAIN notes : \A b \in C14Bodies :
    notes[id].userId = u =>
      LET r == UpdateRes(notes, u, id, b, now)
          after == UpdateStore(notes, u, id, b, now)
      IN /\ r.status = 200
         /\ DOMAIN after = DOMAIN notes
         /\ r.data = after[id]
         /\ \A j \in DOMAIN notes \ {id} : after[j] = notes[j]
         /\ \A f \in DOMAIN notes[id] \ (DOMAIN b \cup {"updatedAt"}) :
              after[id][f] = notes[id][f]
         /\ \A f \in DOMAIN b \cap {"category", "isPinned", "isArchived", "color"} :
              after[id][f] = b[f]

C14Step ==
  (req'.op = "Update" /\ res'.status = 200 /\ now' = now) =>
     /\ DOMAIN notes' = DOMAIN notes
     /\ \A j \in DOMAIN notes \ {req'.id} : notes'[j] = notes[j]
     /\ \A f \in DOMAIN notes[req'.id] \ (DOMAIN req'.body \cup {"updatedAt"}) :
          notes'[req'.id][f] = notes[req'.id][f]

\* C14: a successful Update by the owner changes, of that note, only the
\* fields its body supplies and updatedAt, and changes no other note; with
\* the body {isPinned: true} title, content, category, tags, isArchived and
\* color stay as they were.
UpdateFrame == []C14Frame /\ [][C14Step]_vars

\* an Update with {isPinned: true} alone, at a later time, of a note that
\* has tags and a color of its own
C14Witness ==
  /\ req.op = "Update" /\ res.status = 200
  /\ DOMAIN req.body = {"isPinned"}
  /\ notes[req.id].isPinned
  /\ notes[req.id].tags # <<>>
  /\ notes[req.id].color # DefaultColor
  /\ notes[req.id].updatedAt > notes[req.id].createdAt

C15Bodies ==
  { [userId |-> 1], [userId |-> 2, isPinned |-> TRUE],
    [_id |-> 0, createdAt |-> MaxTime + 1, title |-> <<"a">>] }

C15Fixed(before, after) ==
  /\ after._id = before._id
  /\ after.userId = before.userId
  /\ after.createdAt = before.createdAt

C15State ==
  \A id \in DOMAIN notes :
    /\ notes[id]._id = id
    /\ notes[id].userId \in NoteUsers
    /\ \A u \in NoteUsers :
         /\ \A b \in C15Bodies \cup UpdateBodies :
              C15Fixed(notes[id], UpdateStore(notes, u, id, b, now)[id])
         /\ C15Fixed(notes[id], TogglePinStore(notes, u, id, now)[id])
         /\ C15Fixed(notes[id], ToggleArchiveStore(notes, u, id, now)[id])

C15Step ==
  \A id \in DOMAIN notes' :
    IF id \in DOMAIN notes
    THEN C15Fixed(notes[id], notes'[id])
    ELSE /\ req'.op = "Create"
         /\ notes'[id].userId = req'.user
         /\ notes'[id]._id = id

\* C15: every note has one owner, the user whose Create inserted it, and no
\* Update, whatever its body holds, and no TogglePin or ToggleArchive changes
\* the owner, the id or createdAt of a note.
OwnerImmutable == []C15State /\ [][C15Step]_vars

\* an Update whose body named another owner and another createdAt succeeded
\* and the note has the owner and createdAt it had
C15Witness ==
  /\ req.op = "Update" /\ res.status = 200
  /\ {"userId", "createdAt"} \subseteq DOMAIN req.body
  /\ req.body.userId # req.user
  /\ notes[req.id].userId = req.user
  /\ notes[req.id].createdAt # req.body.createdAt

\* the ids of notes that were created and are no longer stored
Deleted == (1..nextId) \ DOMAIN notes

C16Queries == C1Queries \cup { [isArchived |-> "false"] }

C16Gone ==
  \A d \in Deleted : \A u \in NoteUsers :
    /\ GetByIdRes(notes, u, d).status = 404
    /\ GetByIdRes(notes, u, d).error = "Note not found"
    /\ \A b \in C14Bodies :
         /\ UpdateRes(notes, u, d, b, now).status = 404
         /\ UpdateStore(notes, u, d, b, now) = notes
    /\ DeleteRes(notes, u, d).status = 404
    /\ DeleteStore(notes, u, d) = notes
    /\ TogglePinRes(notes, u, d).status = 404
    /\ TogglePinStore(notes, u, d, now) = notes
    /\ ToggleArchiveRes(notes, u, d).status = 404
    /\ ToggleArchiveStore(notes, u, d, now) = notes
    /\ \A q \in C16Queries : \A r \in ListRes(notes, u, q) :
         \A i \in 1..Len(r.notes) : r.notes[i]._id # d
    /\ StatsRes(notes, u).data.totalNotes = Cardinality(LiveNotesOf(u))

C16Step ==
  /\ \A d \in Deleted : d \notin DOMAIN notes'
  /\ (req'.op = "Delete" /\ res'.status = 200 /\ now' = now) =>
       /\ req'.id \in DOMAIN notes
       /\ notes[req'.id].userId = req'.user
       /\ res'.data.id = req'.id
       /\ DOMAIN notes' = DOMAIN notes \ {req'.id}
       /\ \A j \in DOMAIN notes' : notes'[j] = notes[j]

\* C16: a Delete by the owner answers with the id of the note and removes
\* that note and no other; from then on the id is in no state of the
\* collection, GetById, Update, Delete, TogglePin and ToggleArchive for it
\* answer 404 "Note not found" and write nothing, no List returns it and
\* Statistics counts only stored notes.
DeletedIsGone == []C16Gone /\ [][C16Step]_vars

\* a TogglePin for a deleted id was refused while another note is stored
C16Witness ==
  /\ req.op = "TogglePin" /\ res.status = 404
  /\ req.id \in Deleted
  /\ DOMAIN notes # {}

\* after differs from before in the note id only, and there in flag and
\* updatedAt only
C17Frame(before, after, id, flag) ==
  /\ DOMAIN after = DOMAIN before
  /\ \A j \in DOMAIN before \ {id} : after[j] = before[j]
  /\ \A f \in DOMAIN before[id] \ {flag, "updatedAt"} : after[id][f] = before[id][f]

C17State ==
  \A id \in DOMAIN notes :
    LET u == notes[id].userId
        pin == TogglePinRes(notes, u, id)
        pinned == TogglePinStore(notes, u, id, now)
        arch == ToggleArchiveRes(notes, u, id)
        archived == ToggleArchiveStore(notes, u, id, now)
    IN /\ pin.status = 200 /\ pin.data.id = id
       /\ pin.data.isPinned = ~notes[id].isPinned
       /\ pinned[id].isPinned = ~notes[id].isPinned
       /\ C17Frame(notes, pinned, id, "isPinned")
       /\ TogglePinStore(pinned, u, id, now)[id].isPinned = notes[id].isPinned
       /\ arch.status = 200 /\ arch.data.id = id
       /\ arch.data.isArchived = ~notes[id].isArchived
       /\ archived[id].isArchived = ~notes[id].isArchived
       /\ C17Frame(notes, archived, id, "isArchived")
       /\ ToggleArchiveStore(archived, u, id, now)[id].isArchived = notes[id].isArchived

C17Step ==
  /\ (req'.op = "TogglePin" /\ res'.status = 200 /\ now' = now) =>
       /\ notes'[req'.id].isPinned = ~notes[req'.id].isPinned
       /\ res'.data.isPinned = notes'[req'.id].isPinned
       /\ C17Frame(notes, notes', req'.id, "isPinned")
  /\ (req'.op = "ToggleArchive" /\ res'.status = 200 /\ now' = now) =>
       /\ notes'[req'.id].isArchived = ~notes[req'.id].isArchived
       /\ res'.data.isArchived = notes'[req'.id].isArchived
       /\ C17Frame(notes, notes', req'.id, "isArchived")

\* C17: TogglePin and ToggleArchive by the owner negate isPinned and
\* isArchived, answer with the new value and change nothing else but
\* updatedAt; a second toggle of the same kind restores the flag; both do so
\* for archived and for live notes.
ToggleNegates == []C17State /\ [][C17Step]_vars

\* an archived note was pinned
C17Witness ==
  /\ req.op = "TogglePin" /\ res.status = 200
  /\ res.data.isPinned
  /\ notes[req.id].isPinned /\ notes[req.id].isArchived

C18Stored ==
  \A id \in DOMAIN notes :
    /\ Len(notes[id].tags) <= TagsMax
    /\ \A i \in 1..Len(notes[id].tags) : Len(notes[id].tags[i]) \in 1..TagMax

C18Limit ==
  \A u \in NoteUsers : \A tags \in TagLists :
    LET create == CreateRes(notes, u, nextId + 1, TagCreateBody(tags), now)
        created == CreateStore(notes, u, nextId + 1, TagCreateBody(tags), now)
        fits == \A i \in 1..Len(tags) : Len(trim(tags[i])) <= TagMax
    IN /\ Len(tags) > TagsMax => (create.status = 400 /\ created = notes)
       /\ (Len(tags) = TagsMax /\ fits) => (create.status = 201 /\ created # notes)
       /\ \A id \in NotesOf(u) :
            LET update == UpdateRes(notes, u, id, [tags |-> tags], now)
                updated == UpdateStore(notes, u, id, [tags |-> tags], now)
            IN /\ Len(tags) > TagsMax => (update.status = 400 /\ updated = notes)
               /\ (Len(tags) = TagsMax /\ fits) =>
                    (update.status = 200 /\ updated[id].tags = CleanTags(tags))

\* C18: Create and Update with more than 10 tags fail validation and write
\* nothing, with exactly 10 tags of at most 30 characters they succeed, and
\* every stored note has at most 10 tags, each of 1 to 30 characters.
TagsBounded == C18Stored /\ C18Limit

\* eleven tags were refused while a note with ten tags and a note with a
\* tag of thirty characters are stored
C18Witness ==
  /\ req.op \in {"Create", "Update"}
  /\ Len(req.body.tags) = TagsMax + 1
  /\ res.status = 400
  /\ \E id \in DOMAIN notes : Len(notes[id].tags) = TagsMax
  /\ \E id \in DOMAIN notes : \E i \in 1..Len(notes[id].tags) :
       Len(notes[id].tags[i]) = TagMax

\* requests of POST / with the title, content and tags GetById is to return
C19Cases ==
  { [body |-> [title |-> <<" ", "a", " ", "b", " ">>, content |-> <<"x", " ">>,
               category |-> "study",
               tags |-> << <<" ", "a", " ">>, <<" ">>, <<"b">>, <<"a">>, <<>> >>],
     title |-> <<"a", " ", "b">>, content |-> <<"x">>,
     tags |-> << <<"a">>, <<"b">>, <<"a">> >>, color |-> <<"#", "f", "f", "f", "f", "f", "f">>],
    [body |-> [title |-> <<"b">>, content |-> <<" ", "x">>, category |-> "creative",
               color |-> <<"#", "A", "b", "0">>],
     title |-> <<"b">>, content |-> <<"x">>,
     tags |-> <<>>, color |-> <<"#", "A", "b", "0">>] }

C19Created ==
  \A u \in NoteUsers : \A c \in C19Cases :
    LET create == CreateRes(notes, u, nextId + 1, c.body, now)
        get == GetByIdRes(CreateStore(notes, u, nextId + 1, c.body, now), u, create.data._id)
    IN /\ create.status = 201
       /\ create.data._id \notin DOMAIN notes
       /\ get.status = 200
       /\ get.data._id = create.data._id
       /\ get.data.userId = u
       /\ get.data.title = c.title
       /\ get.data.content = c.content
       /\ get.data.category = c.body.category
       /\ get.data.tags = c.tags
       /\ get.data.color = c.color
       /\ get.data.isPinned = FALSE /\ get.data.isArchived = FALSE
       /\ get.data.createdAt = now /\ get.data.updatedAt = now

C19Step ==
  /\ (req'.op = "GetById" /\ res'.status = 200 /\ now' = now) =>
       res'.data = notes[req'.id]
  /\ (req'.op = "Create" /\ res'.status = 201 /\ now' = now) =>
       /\ res'.data._id \notin DOMAIN notes
       /\ notes'[res'.data._id] = res'.data
       /\ res'.data.title = trim(req'.body.title)
       /\ res'.data.content = trim(req'.body.content)
       /\ res'.data.category = req'.body.category

\* C19: after a valid Create, GetById of the returned id by the same user
\* returns the trimmed title and content, the category, the color or
\* #ffffff, the tags trimmed with the empty ones dropped, in order and with
\* duplicates, and the id and timestamps the server assigned.
CreateRoundTrip == []C19Created /\ [][C19Step]_vars

\* GetById returned a note as its Create left it: the blank tag dropped, the
\* other trimmed, the color of the request
C19Witness ==
  /\ req.op = "GetById" /\ res.status = 200
  /\ res.data = notes[req.id]
  /\ res.data.tags = << <<"a">> >>
  /\ res.data.color = <<"#", "0", "0", "0">>
  /\ res.data.createdAt = res.data.updatedAt

C20Same ==
  \A known \in AnyCaseEmails : \A unknown \in AnyCaseEmails :
    ( /\ \E i \in DOMAIN users : users[i].email = Folded(known)
      /\ \A i \in DOMAIN users : users[i].email # Folded(unknown) ) =>
       /\ ForgotPasswordRes(users, [email |-> known]).status = 200
       /\ ForgotPasswordRes(users, [email |-> known]) =
            ForgotPasswordRes(users, [email |-> unknown])

C20Step ==
  (req'.op = "ForgotPassword" /\ now' = now) =>
     /\ users' = users /\ tokens' = tokens
     /\ notes' = notes /\ nextId' = nextId
     /\ res'.status = 200 =>
          res' = ForgotPasswordRes(users, [email |-> <<"a", "@", "x">>])

\* C20: ForgotPassword with a well-formed email gives one and the same 200
\* response for an email a user has and for an email no user has, and
\* changes no user, token or note.
ForgotSame == []C20Same /\ [][C20Step]_vars

\* a request for an email no user has succeeded while users and notes exist
C20Witness ==
  /\ req.op = "ForgotPassword" /\ res.status = 200
  /\ \A i \in DOMAIN users : users[i].email # Folded(req.body.email)
  /\ \E i \in DOMAIN users : users[i].email = <<"a", "@", "x">>
  /\ DOMAIN notes # {}

C21State ==
  call.session = "logout" =>
     /\ context.user = <<>>
     /\ ~context.isAuthenticated
     /\ call.op = "request" => sent.authorization = <<>>
     /\ call.op = "logout" => DOMAIN localStorage = {}

C21Step == call'.op = "logout" => sent' = sent

\* C21: logout sends no request and removes the stored token and the stored
\* user, and from then to the next login no request carries an Authorization
\* header, user is null and isAuthenticated is false.
LogoutHolds == []C21State /\ [][C21Step]_vars

\* C30: isAuthenticated is true only if a token is in localStorage, and a
\* user is in localStorage only if a token is.
SessionConsistent ==
  /\ context.isAuthenticated => getToken(localStorage) # <<>>
  /\ getUser(localStorage) # <<>> => getToken(localStorage) # <<>>

\* C22: GET /dashboard reports the totalNotes, pinnedNotes and categories that
\* GET /stats reports for the user; recentNotes are the min(5, n) most
\* recently updated of the user's n non-archived notes, in descending
\* updatedAt, and pinnedNotes the min(5, m) most recently updated of the m
\* pinned non-archived ones, in descending updatedAt.
C22MostRecent(list, S) ==
  /\ Len(list) = Min(5, Cardinality(S))
  /\ \A i \in 1..Len(list) : \E d \in S : list[i] = select(d)
  /\ \A i, j \in 1..Len(list) : i < j =>
       /\ list[i]._id # list[j]._id
       /\ list[i].updatedAt >= list[j].updatedAt
  /\ \A d \in S : (\A i \in 1..Len(list) : list[i]._id # d._id) =>
       \A i \in 1..Len(list) : list[i].updatedAt >= d.updatedAt

DashboardExact ==
  (req.op = "Dashboard" /\ res # NoRes) =>
     LET own == {notes[id] : id \in {i \in DOMAIN notes :
                    notes[i].userId = req.user /\ ~notes[i].isArchived}}
         stats == StatsRes(notes, req.user).data
     IN /\ res.status = 200
        /\ res.data.statistics.totalNotes = stats.totalNotes
        /\ res.data.statistics.pinnedNotes = stats.pinnedNotes
        /\ res.data.statistics.categories = stats.categories
        /\ res.data.statistics.totalNotes = Cardinality(own)
        /\ C22MostRecent(res.data.recentNotes, own)
        /\ C22MostRecent(res.data.pinnedNotes, {d \in own : d.isPinned})

C22Witness ==
  /\ req.op = "Dashboard" /\ res # NoRes
  /\ Len(res.data.recentNotes) = 5
  /\ Len(res.data.pinnedNotes) = 5
  /\ res.data.statistics.totalNotes > 5
  /\ res.data.statistics.pinnedNotes > 5
  /\ \E id \in DOMAIN notes : notes[id].userId = req.user /\ notes[id].isArchived
  /\ \E i \in 1..4 : res.data.recentNotes[i].updatedAt = res.data.recentNotes[i + 1].updatedAt

\* C23: when two POST /register requests with the same normalized email have
\* both passed the findByEmail pre-check, the one that saves first creates the
\* user and is answered 201 with a token, and the other creates nothing and
\* is answered with the "User already exists" error a sequential duplicate
\* registration gets.
C23Step ==
  \A r \in Slots :
    (/\ r \in DOMAIN pending
     /\ pending[r].op = "Register"
     /\ pending' = Drop(pending, r)) =>
       IF findByEmail(users, pending[r].body.email) = <<>>
       THEN /\ res'.status = 201
            /\ "token" \in DOMAIN res'
            /\ Cardinality(DOMAIN users') = Cardinality(DOMAIN users) + 1
       ELSE /\ users' = users
            /\ res' = UserExists
            /\ res' = RegisterRes(users, pending[r].raw, now)

RaceLoserConflict == [][C23Step]_vars

\* C24: two concurrent POST /:id/pin on one note are not isolated: each save
\* writes the negation of the isPinned its own findOne read, whatever the
\* note holds by then, and each answers with that value, so two toggles that
\* read the same value leave the note with the negation of the original (one
\* flip is lost); a toggle's save leaves title, content, category, tags,
\* isArchived, color and userId unchanged.
C24Step ==
  \A r \in Slots :
    (/\ r \in DOMAIN pending
     /\ pending[r].op = "TogglePin"
     /\ pending[r].phase = "save"
     /\ r \in DOMAIN pending'
     /\ pending'[r].phase = "respond"
     /\ pending[r].id \in DOMAIN notes) =>
       LET id == pending[r].id
       IN /\ id \in DOMAIN notes'
          /\ notes'[id].isPinned = ~pending[r].read.isPinned
          /\ pending'[r].answer.data.isPinned = ~pending[r].read.isPinned
          /\ \A f \in {"title", "content", "category", "tags", "isArchived", "color",
                       "userId"} : notes'[id][f] = notes[id][f]
          /\ \A other \in DOMAIN notes \ {id} : notes'[other] = notes[other]

LostFlip == [][C24Step]_vars

C24Witness ==
  \E r1, r2 \in DOMAIN pending :
    /\ r1 # r2
    /\ pending[r1].op = "TogglePin" /\ pending[r2].op = "TogglePin"
    /\ pending[r1].id = pending[r2].id
    /\ pending[r1].phase = "respond" /\ pending[r2].phase = "respond"
    /\ pending[r1].read.isPinned = pending[r2].read.isPinned
    /\ pending[r1].answer.status = 200 /\ pending[r2].answer.status = 200
    /\ pending[r1].answer.data.isPinned = pending[r2].answer.data.isPinned
    /\ pending[r1].id \in DOMAIN notes
    /\ notes[pending[r1].id].isPinned = ~pending[r1].read.isPinned

\* C27: a note deleted between the findOne and the save of a concurrent
\* PUT /:id, POST /:id/pin or POST /:id/archive is not brought back by the
\* save: an id that has left the collection never returns to it, and GET /:id
\* of it answers 404.
C27State ==
  \A id \in Deleted, u \in NoteUsers : GetByIdRes(notes, u, id) = NotFound("view")

C27Step == \A id \in Deleted : id \notin DOMAIN notes'

NeverResurrected == []C27State /\ [][C27Step]_vars

C27Witness ==
  /\ req.op = "GetById" /\ res = NotFound("view")
  /\ req.id \in Deleted
  /\ \E r \in DOMAIN pending :
       /\ pending[r].id = req.id
       /\ pending[r].phase = "respond"
       /\ pending[r].answer.status = 500

\* C25: for every category and every isPinned value the validation accepts
\* ('true', 'false', '1', '0'), GET / returns only notes of that category
\* whose isPinned is the boolean the value denotes ('true' and '1' pinned,
\* 'false' and '0' not pinned); a filter that is absent restricts nothing.
C25Denotes(value) == value \in {"true", "1"}

C25Expected(q) ==
  {d \in Find(notes, [userId |-> req.user,
                      isArchived |-> (Get(q, "isArchived", "false") = "true")]) :
     /\ "category" \in DOMAIN q => d.category = q.category
     /\ "isPinned" \in DOMAIN q => d.isPinned = C25Denotes(q.isPinned)
     /\ Truthy(q, "search") => TextMatch(d, q.search)}

FilterDenotes ==
  (req.op = "List" /\ res # NoRes /\ res.status = 200) =>
     /\ \A i \in 1..Len(res.notes) : res.notes[i] \in C25Expected(req.query)
     /\ res.pagination.totalNotes = Cardinality(C25Expected(req.query))

\* C26: the notes GET / returns are ordered by the requested sortBy key
\* (createdAt, updatedAt or title), ascending when sortOrder is asc and
\* descending when it is desc; with neither given they are ordered by
\* updatedAt descending; a sortBy outside the three keys is rejected by the
\* validation.
C26Ordered(list, key, descending) ==
  \A i, j \in 1..Len(list) : i < j =>
    LET lo == IF descending THEN list[j] ELSE list[i]
        hi == IF descending THEN list[i] ELSE list[j]
    IN IF key = "title" THEN StrLeq(lo.title, hi.title) ELSE lo[key] <= hi[key]

SortedAsAsked ==
  (req.op = "List" /\ res # NoRes) =>
     IF "sortBy" \in DOMAIN req.query
        /\ req.query.sortBy \notin {"createdAt", "updatedAt", "title"}
     THEN res.status = 400
     ELSE /\ res.status = 200
          /\ C26Ordered(res.notes, Get(req.query, "sortBy", "updatedAt"),
                        Get(req.query, "sortOrder", "desc") = "desc")
          /\ (req.query = <<>>) => C26Ordered(res.notes, "updatedAt", TRUE)

C26Witness ==
  /\ req.op = "List" /\ res # NoRes /\ res.status = 200
  /\ {"sortBy", "sortOrder"} \subseteq DOMAIN req.query
  /\ req.query.sortBy = "title" /\ req.query.sortOrder = "asc"
  /\ Len(res.notes) = 3
  /\ res.notes[1].title # res.notes[3].title
  /\ res.notes[1].updatedAt < res.notes[3].updatedAt
  /\ res.notes[1]._id > res.notes[3]._id

\* C28: after a successful ChangePassword from p to q (q different from p) of
\* an active user, Login with the user's email and p fails with
\* InvalidCredentials and Login with q succeeds, until the next successful
\* ChangePassword; a failed ChangePassword does not alter which password
\* Login accepts.
C28Login(store, u, pw) == LoginRes(store, [email |-> store[u].email, password |-> pw], now)

C28Changed(u) ==
  /\ req'.op = "ChangePassword" /\ req'.user = u /\ res'.status = 200 /\ now' = now

C28Step ==
  \A u \in DOMAIN users :
    /\ u \in DOMAIN users'
    /\ (C28Changed(u) /\ users[u].isActive) =>
         /\ req'.body.newPassword # req'.body.currentPassword
         /\ C28Login(users, u, req'.body.currentPassword).status = 200
         /\ C28Login(users', u, req'.body.currentPassword) = InvalidCredentials
         /\ C28Login(users', u, req'.body.newPassword).status = 200
    /\ (~C28Changed(u) /\ users'[u] # users[u] /\ users[u].isActive /\ users'[u].isActive) =>
         \A pw \in Passwords :
           C28Login(users', u, pw).status = C28Login(users, u, pw).status

C28State ==
  \A u \in DOMAIN users : users[u].isActive =>
    /\ Cardinality({pw \in Passwords : C28Login(users, u, pw).status = 200}) = 1
    /\ \A pw \in Passwords :
         C28Login(users, u, pw).status # 200 => C28Login(users, u, pw) = InvalidCredentials

PasswordReplaced == []C28State /\ [][C28Step]_vars

\* Login with the password a user registered with was refused after the user
\* had changed it, a failed change having been tried since
C28Witness ==
  /\ req.op = "Login" /\ res = InvalidCredentials
  /\ req.body.password = P1
  /\ \E u \in DOMAIN users :
       /\ users[u].email = <<"b", "@", "x">>
       /\ req.body.email = users[u].email
       /\ users[u].isActive
       /\ users[u].password = Hash(P2)

\* C29: for a fixed filter, sort and limit and a collection that does not
\* change between the requests, the pages 1..totalPages GET / returns are
\* pairwise disjoint and together hold exactly the notes matching the filter,
\* also when matching notes have equal sort keys; a page beyond totalPages is
\* empty.
C29Page(q, k) == [f \in DOMAIN q \cup {"page"} |-> IF f = "page" THEN Decimal(k) ELSE q[f]]

C29Ids(list) == {list[i]._id : i \in 1..Len(list)}

PagesPartition ==
  (req.op = "List" /\ queryValidation(req.query) = {}) =>
     LET q == req.query
         matching == Find(notes, countQuery(req.user, q))
         limit == parseInt(Get(q, "limit", DefaultLimit))
         total == Ceil(Cardinality(matching), limit)
         last == Min(total + 1, 5)
     IN \A i, j \in 1..last :
          \A ri \in ListRes(notes, req.user, C29Page(q, i)),
             rj \in ListRes(notes, req.user, C29Page(q, j)) :
            /\ ri.pagination.totalPages = total
            /\ C29Ids(ri.notes) \subseteq {d._id : d \in matching}
            /\ Len(ri.notes) = Cardinality(C29Ids(ri.notes))
            /\ i > total => ri.notes = <<>>
            /\ i <= total =>
                 Len(ri.notes) = Min(limit, Cardinality(matching) - (i - 1) * limit)
            /\ i < j => C29Ids(ri.notes) \cap C29Ids(rj.notes) = {}

====
